---- MODULE Spec2Model ----
(***************************************************************************)
(* Bulk payment service: the atomic bulk-debit transaction engine.         *)
(*                                                                         *)
(* Request goroutines call Service.ProcessBulkTransfer concurrently.  Each *)
(* call runs its callback inside AccountStore.Atomic, a SQLite transaction *)
(* begun with BEGIN IMMEDIATE (_txlock=immediate) on a WAL database.  The  *)
(* store is modelled as the last committed snapshot, one private working   *)
(* copy per open transaction, and the database write lock.                 *)
(***************************************************************************)
EXTENDS Integers, Sequences, FiniteSets, TLC

(***************************************************************************)
(* Bounds of the model.                                                    *)
(***************************************************************************)
\* number of concurrent request goroutines, each making one call
NumProcs == 2
\* longest transfer list of a bulk transfer
MaxLen == 2
\* width of the machine integer standing for Go's int64: the arithmetic is
\* two's complement and wraps exactly as int64 does, on IntBits bits
IntBits == 21

Procs == 1..NumProcs

(***************************************************************************)
(* int64 arithmetic (Account.BalanceCents, Transfer.AmountCents).          *)
(***************************************************************************)
RECURSIVE Pow2(_)
Pow2(n) == IF n = 0 THEN 1 ELSE 2 * Pow2(n - 1)

MaxInt64 == Pow2(IntBits - 1) - 1
MinInt64 == 0 - Pow2(IntBits - 1)

\* the value a Go int64 holds after an operation whose exact result is x
Wrap(x) == ((x + Pow2(IntBits - 1)) % Pow2(IntBits)) - Pow2(IntBits - 1)

(***************************************************************************)
(* Errors.  An error value is the set of the messages and sentinels on its *)
(* %w chain; errors.Is(err, target) is membership; nil is the empty set.   *)
(***************************************************************************)
Nil == {}
ErrAccountNotFound == {"ErrAccountNotFound"}
ErrInsufficientFunds == {"ErrInsufficientFunds"}
\* what database/sql and the driver report
CtxErr == {"context canceled"}
ErrTxDone == {"sql: transaction has already been committed or rolled back"}
ErrBusy == {"database is locked"}
ErrIO == {"disk I/O error"}

\* fmt.Errorf("<msg>: %w", err)
Wrapf(msg, err) == {msg} \cup err

IsErr(err, target) == target \subseteq err /\ target # Nil

(***************************************************************************)
(* The seeded bank_accounts rows and the request inputs.                   *)
(***************************************************************************)
AccountIDs == {1, 2}

\* iban, bic of each bank_accounts row; UNIQUE(iban, bic)
AccountKey(id) == IF id = 1 THEN <<"IBAN1", "BIC1">> ELSE <<"IBAN2", "BIC2">>

\* balance_cents of each row when the service starts
InitialBalance(id) == IF id = 1 THEN 3 ELSE 1

\* (iban, bic) pairs a request may carry: both accounts and a partial match
RequestKeys == {<<"IBAN1", "BIC1">>, <<"IBAN2", "BIC2">>, <<"IBAN1", "BIC2">>}

\* AmountCents a validated request may carry
AmountSet == {1, MaxInt64}

\* core.Transfer: the owning account is unset (0) until the orchestrator stamps it
Transfer(amount) ==
    [BankAccountID |-> 0, AmountCents |-> amount, Description |-> 0]

SeqsUpTo(S, n) == UNION {[1..k -> S] : k \in 0..n}

\* core.BulkTransfer values a call may be given
BulkTransfers ==
    {[OrganizationIBAN |-> k[1], OrganizationBIC |-> k[2], Transfers |-> ts] :
        k \in RequestKeys, ts \in SeqsUpTo({Transfer(a) : a \in AmountSet}, MaxLen)}

NoBulkTransfer == [OrganizationIBAN |-> "", OrganizationBIC |-> "", Transfers |-> <<>>]

\* core.Account{}: the zero value
ZeroAccount == [ID |-> 0, BalanceCents |-> 0]

(***************************************************************************)
(* Domain model.                                                           *)
(***************************************************************************)
\* BulkTransfer.TotalAmount: total += t.AmountCents over the list, in int64
RECURSIVE SumAmounts(_, _)
SumAmounts(ts, total) ==
    IF ts = <<>> THEN total
    ELSE SumAmounts(Tail(ts), Wrap(total + Head(ts).AmountCents))

TotalAmount(bt) == SumAmounts(bt.Transfers, 0)

\* mutant: the funds are never checked
HasSufficientFundsAlways(a, totalRequired) == TRUE

\* mutant: the balance must exceed the amount
HasSufficientFundsStrict(a, totalRequired) == a.BalanceCents > totalRequired

\* Account.HasSufficientFunds
HasSufficientFunds(a, totalRequired) == a.BalanceCents >= totalRequired

\* Account.Debit: the error it returns
DebitErr(a, amount) ==
    IF ~HasSufficientFunds(a, amount) THEN ErrInsufficientFunds ELSE Nil

\* mutant: Debit on a value receiver, the debit is lost with the copy
DebitAccountByValue(a, amount) == a

\* Account.Debit: the account it leaves
DebitAccount(a, amount) ==
    IF ~HasSufficientFunds(a, amount) THEN a
    ELSE [a EXCEPT !.BalanceCents = Wrap(a.BalanceCents - amount)]

\* the exact sum of the magnitudes, as an unbounded integer
RECURSIVE TrueSum(_)
TrueSum(ts) == IF ts = <<>> THEN 0 ELSE Head(ts).AmountCents + TrueSum(Tail(ts))

(***************************************************************************)
(* Store configuration.                                                    *)
(***************************************************************************)
\* mutant: the write-ahead log is off
EnableWALOff == FALSE

\* Config.EnableWAL, default "true"
EnableWAL == TRUE

\* mutant: the DSN leaves SQLite's default, BEGIN DEFERRED
TxLockDeferred == "deferred"

\* buildDSN: _txlock
TxLock == "immediate"

\* buildDSN: _journal_mode, set only when EnableWAL
JournalMode == IF EnableWAL THEN "WAL" ELSE "DELETE"

\* AddTransfers: const batchSize
batchSize == 100

\* bound parameters of one row of the INSERT of addTransfers
ParamsPerRow == 7

\* SQLITE_MAX_VARIABLE_NUMBER
MaxVariableNumber == 999

\* BEGIN IMMEDIATE takes the database write lock when the transaction begins;
\* any other _txlock leaves the transaction without it at BEGIN
WriteLockAtBegin == TxLock = "immediate"

\* A connection outside the write transaction can read while the write lock
\* is held only from a write-ahead log; with a rollback journal the writer's
\* commit takes the locks that make readers wait.
ReadersBlocked(w) == w # 0 /\ JournalMode # "WAL"

(***************************************************************************)
(* The database: bank_accounts.balance_cents by id, and the transactions   *)
(* table in id order (AUTOINCREMENT: the id of a row is its position).     *)
(***************************************************************************)
InitDB == [balance |-> [id \in AccountIDs |-> InitialBalance(id)], rows |-> <<>>]

NoDB == [balance |-> [id \in AccountIDs |-> 0], rows |-> <<>>]

\* no open *sql.Tx
NoTx == [open |-> FALSE, db |-> NoDB]

VARIABLES
    committed,     \* the last committed snapshot of the database
    writer,        \* the goroutine whose transaction holds the write lock, or 0
    tx,            \* per goroutine: its *sql.Tx and the working copy it sees
    pc,            \* per goroutine: where its ProcessBulkTransfer call stands
    bulkTransfer,  \* per goroutine: the argument of its call
    ctxDone,       \* per goroutine: its context is cancelled or timed out
    account,       \* per goroutine: the callback's local account
    transfers,     \* per goroutine: the stamped copy handed to AddTransfers
    idx,           \* per goroutine: AddTransfers' loop index i
    cbErr,         \* per goroutine: the error the callback returned
    result,        \* per goroutine: the error ProcessBulkTransfer returned
    readBalance,   \* history: the balance GetAccountByID returned
    commitLog,     \* history: the calls whose transaction committed, in order
    observed,      \* what a read outside any transaction returned, in the
                   \* step that made it
    outside,       \* what a repository operation called on a store outside
                   \* Atomic returned, in the step that made the call
    unit,          \* a domain-model method called on its own: the receiver
                   \* and arguments, and what the call left and returned
    handler        \* the HTTP exchange of Handler.PostTransfers: the request
                   \* body, how far the handler is and the status it answered

vars == <<committed, writer, tx, pc, bulkTransfer, ctxDone, account, transfers,
          idx, cbErr, result, readBalance, commitLog, observed, outside,
          unit, handler>>

storeVars == <<committed, writer, tx, commitLog>>
localVars == <<account, transfers, idx, cbErr, readBalance>>

NoObservation == [id |-> 0, balance |-> 0, count |-> 0, duringWrite |-> FALSE]

\* no operation was called outside Atomic
NoCall == [op |-> "", returned |-> FALSE, err |-> Nil, account |-> ZeroAccount]

\* the service before any call
InitService ==
    /\ committed = InitDB
    /\ writer = 0
    /\ tx = [p \in Procs |-> NoTx]
    /\ pc = [p \in Procs |-> "idle"]
    /\ bulkTransfer = [p \in Procs |-> NoBulkTransfer]
    /\ ctxDone = [p \in Procs |-> FALSE]
    /\ account = [p \in Procs |-> ZeroAccount]
    /\ transfers = [p \in Procs |-> <<>>]
    /\ idx = [p \in Procs |-> 0]
    /\ cbErr = [p \in Procs |-> Nil]
    /\ result = [p \in Procs |-> Nil]
    /\ readBalance = [p \in Procs |-> 0]
    /\ commitLog = <<>>
    /\ observed = NoObservation
    /\ outside = NoCall

\* no domain-model method called on its own
NoUnit ==
    [op |-> "", acc |-> ZeroAccount, amount |-> 0, ts |-> <<>>,
     accAfter |-> ZeroAccount, err |-> Nil, ok |-> FALSE, total |-> 0]

\* no request received
NoExchange == [stage |-> "", body |-> <<>>, invoked |-> FALSE, status |-> 0]

Init == InitService /\ unit = NoUnit /\ handler = NoExchange

\* a step of the service returns nothing to a reader or to a caller outside
NoRead ==
    /\ observed' = NoObservation
    /\ outside' = NoCall
    /\ unit' = unit
    /\ handler' = handler

(***************************************************************************)
(* database/sql: a statement on the transaction.                           *)
(***************************************************************************)
\* the error of tx.QueryRowContext / tx.ExecContext before it reaches SQLite:
\* the context is checked first, then whether the transaction is still open;
\* io is the store failing the statement
StmtErr(p, io) ==
    IF ctxDone[p] THEN CtxErr
    ELSE IF ~tx[p].open THEN ErrTxDone
    ELSE IF io THEN ErrIO
    ELSE Nil

\* mutant: the transaction ends and the write lock stays taken
EndTxKeepingLock(p) ==
    /\ tx' = [tx EXCEPT ![p] = NoTx]
    /\ writer' = writer

\* ROLLBACK, or the connection dropping its transaction: the working copy is
\* discarded and the write lock released
EndTx(p) ==
    /\ tx' = [tx EXCEPT ![p] = NoTx]
    /\ writer' = IF writer = p THEN 0 ELSE writer

(***************************************************************************)
(* Service.ProcessBulkTransfer                                             *)
(***************************************************************************)
\* mutant: the empty list is not short-circuited
NoTransfersNever(bt) == FALSE

\* if len(bulkTransfer.Transfers) == 0
NoTransfers(bt) == Len(bt.Transfers) = 0

\* the call arrives; an empty list returns nil at once
Call(p) ==
    /\ pc[p] = "idle"
    /\ \E bt \in BulkTransfers :
        /\ bulkTransfer' = [bulkTransfer EXCEPT ![p] = bt]
        /\ IF NoTransfers(bt)
           THEN /\ pc' = [pc EXCEPT ![p] = "done"]
                /\ result' = [result EXCEPT ![p] = Nil]
           ELSE /\ pc' = [pc EXCEPT ![p] = "begin"]
                /\ UNCHANGED result
    /\ UNCHANGED <<storeVars, localVars, ctxDone>>
    /\ NoRead

(***************************************************************************)
(* AccountStore.Atomic: s.db.BeginTx                                       *)
(***************************************************************************)
BeginTx(p) ==
    /\ pc[p] = "begin"
    /\ IF ctxDone[p]
       THEN /\ pc' = [pc EXCEPT ![p] = "done"]
            /\ result' = [result EXCEPT ![p] =
                             Wrapf("failed to begin transaction", CtxErr)]
            /\ UNCHANGED <<tx, writer>>
       ELSE /\ WriteLockAtBegin => writer = 0
            /\ writer' = IF WriteLockAtBegin THEN p ELSE writer
            /\ tx' = [tx EXCEPT ![p] = [open |-> TRUE, db |-> committed]]
            /\ pc' = [pc EXCEPT ![p] = "get"]
            /\ UNCHANGED result
    /\ UNCHANGED <<committed, commitLog, localVars, bulkTransfer,
                   ctxDone>>
    /\ NoRead

\* the write lock stayed taken for the whole _busy_timeout
BeginBusyTimeout(p) ==
    /\ pc[p] = "begin"
    /\ ~ctxDone[p]
    /\ WriteLockAtBegin
    /\ writer # 0
    /\ pc' = [pc EXCEPT ![p] = "done"]
    /\ result' = [result EXCEPT ![p] =
                     Wrapf("failed to begin transaction", ErrBusy)]
    /\ UNCHANGED <<storeVars, localVars, bulkTransfer, ctxDone>>
    /\ NoRead

(***************************************************************************)
(* The callback of ProcessBulkTransfer, run by Atomic on the transaction.  *)
(***************************************************************************)
\* mutant: the lookup matches on the IBAN alone
SelectAccountByIBAN(iban, bic) == {id \in AccountIDs : AccountKey(id)[1] = iban}

\* SELECT ... FROM bank_accounts WHERE iban = ? AND bic = ?
SelectAccount(iban, bic) == {id \in AccountIDs : AccountKey(id) = <<iban, bic>>}

\* the callback returns err to Atomic
Return(p, err) ==
    /\ cbErr' = [cbErr EXCEPT ![p] = err]
    /\ pc' = [pc EXCEPT ![p] = "end"]

\* AccountStore.GetAccountByID on the transaction-bound store
GetAccountByID(p) ==
    /\ pc[p] = "get"
    /\ \E io \in BOOLEAN :
        LET err == StmtErr(p, io)
            found == SelectAccount(bulkTransfer[p].OrganizationIBAN,
                                   bulkTransfer[p].OrganizationBIC)
        IN  IF err # Nil
            THEN /\ Return(p, Wrapf("failed to get account", err))
                 /\ UNCHANGED <<account, readBalance>>
            ELSE IF found = {}
            THEN /\ Return(p, ErrAccountNotFound)
                 /\ UNCHANGED <<account, readBalance>>
            ELSE LET id == CHOOSE i \in found : TRUE
                     row == [ID |-> id, BalanceCents |-> tx[p].db.balance[id]]
                 IN  /\ account' = [account EXCEPT ![p] = row]
                     /\ readBalance' = [readBalance EXCEPT ![p] = row.BalanceCents]
                     /\ pc' = [pc EXCEPT ![p] = "debit"]
                     /\ UNCHANGED cbErr
    /\ UNCHANGED <<storeVars, transfers, idx, result, bulkTransfer, ctxDone>>
    /\ NoRead

\* account.Debit(bulkTransfer.TotalAmount())
Debit(p) ==
    /\ pc[p] = "debit"
    /\ LET total == TotalAmount(bulkTransfer[p])
           err == DebitErr(account[p], total)
       IN  /\ account' = [account EXCEPT ![p] = DebitAccount(account[p], total)]
           /\ IF err # Nil
              THEN Return(p, err)
              ELSE /\ pc' = [pc EXCEPT ![p] = "update"]
                   /\ UNCHANGED cbErr
    /\ UNCHANGED <<storeVars, transfers, idx, result, readBalance,
                   bulkTransfer, ctxDone>>
    /\ NoRead

\* mutant: the loop stamps its own copy and the list keeps the input's values
StampNothing(ts, id) == ts

\* the copy of the list with every transfer's BankAccountID set to account.ID
Stamp(ts, id) == [i \in 1..Len(ts) |-> [ts[i] EXCEPT !.BankAccountID = id]]

\* mutant: the loop assigns through the index, into the caller's array
RangedInPlace(ts, id) == Stamp(ts, id)

\* bulkTransfer.Transfers after `for i, transfer := range ...`: the slice
\* shares its array with the caller's, and the loop assigns only to its own
\* copy `transfer` of each element and to the new slice
Ranged(ts, id) == ts

\* mutant: the number of updated rows is not looked at
RowsAffectedAny(id) == 1

\* UPDATE bank_accounts SET balance_cents = ? WHERE id = ?: the rows affected
RowsAffected(id) == IF id \in AccountIDs THEN 1 ELSE 0

\* AccountStore.UpdateBalance, then the stamping loop of the callback
UpdateBalance(p) ==
    /\ pc[p] = "update"
    /\ \E io \in BOOLEAN :
        LET err == StmtErr(p, io)
            acc == account[p]
        IN  IF err # Nil
            THEN /\ Return(p, Wrapf("failed to execute update", err))
                 /\ UNCHANGED <<tx, transfers, idx, bulkTransfer>>
            ELSE IF RowsAffected(acc.ID) = 0
            THEN /\ Return(p, {"no rows updated for account ID"})
                 /\ UNCHANGED <<tx, transfers, idx, bulkTransfer>>
            ELSE /\ tx' = [tx EXCEPT ![p].db.balance[acc.ID] = acc.BalanceCents]
                 /\ transfers' = [transfers EXCEPT ![p] =
                                     Stamp(bulkTransfer[p].Transfers, acc.ID)]
                 /\ bulkTransfer' = [bulkTransfer EXCEPT ![p].Transfers =
                                        Ranged(@, acc.ID)]
                 /\ idx' = [idx EXCEPT ![p] = 0]
                 /\ pc' = [pc EXCEPT ![p] = "add"]
                 /\ UNCHANGED cbErr
    /\ UNCHANGED <<committed, writer, commitLog, account, readBalance,
                   result, ctxDone>>
    /\ NoRead

\* mutant: the amount is stored as it was handed over
StoredAmountAsIs(t) == t.AmountCents

\* addTransfers: amountCents := -transfer.AmountCents
StoredAmount(t) == Wrap(0 - t.AmountCents)

\* the transactions row addTransfers binds for one transfer
StoredRow(t) ==
    [bank_account_id |-> t.BankAccountID, amount_cents |-> StoredAmount(t),
     description |-> t.Description]

\* mutant: the statement writes its rows over the first rows of the table
InsertOrReplace(rows, batch) ==
    [i \in 1..Len(batch) |-> StoredRow(batch[i])]
        \o SubSeq(rows, Len(batch) + 1, Len(rows))

\* INSERT INTO transactions (...) VALUES (...), ...: one new row per transfer
\* of the batch, after the rows the table has
Insert(rows, batch) ==
    rows \o [i \in 1..Len(batch) |-> StoredRow(batch[i])]

\* mutant: every batch is sliced from the start of the list
BatchFromStart(ts, i, end) == SubSeq(ts, 1, end - i)

\* transfers[i:end]
Batch(ts, i, end) == SubSeq(ts, i + 1, end)

\* mutant: only the first transfer of a batch is looked at
MissingAccountIDFirst(batch) == batch # <<>> /\ batch[1].BankAccountID = 0

\* addTransfers: a transfer of the batch has BankAccountID == 0
MissingAccountID(batch) == \E i \in 1..Len(batch) : batch[i].BankAccountID = 0

\* mutant: the slice always runs to the end of the list
EndOfList(a, b) == b

Min(a, b) == IF a < b THEN a ELSE b

\* AccountStore.AddTransfers: one turn of its loop, addTransfers on
\* transfers[i:end]; the loop ends when i reaches len(transfers), at once
\* and with no statement when the list is empty
AddTransfers(p) ==
    /\ pc[p] = "add"
    /\ \E io \in BOOLEAN :
        LET ts == transfers[p]
            end == Min(idx[p] + batchSize, Len(ts))
            batch == Batch(ts, idx[p], end)
            err == StmtErr(p, io)
        IN  IF idx[p] >= Len(ts)
            THEN /\ Return(p, Nil)
                 /\ UNCHANGED <<tx, idx>>
            ELSE IF MissingAccountID(batch)
            THEN /\ Return(p, {"transfer missing bank_account_id"})
                 /\ UNCHANGED <<tx, idx>>
            ELSE IF err # Nil
            THEN /\ Return(p, Wrapf("failed to bulk insert transfers", err))
                 /\ UNCHANGED <<tx, idx>>
            ELSE /\ tx' = [tx EXCEPT ![p].db.rows = Insert(@, batch)]
                 /\ idx' = [idx EXCEPT ![p] = idx[p] + batchSize]
                 /\ IF idx[p] + batchSize < Len(ts)
                    THEN UNCHANGED <<pc, cbErr>>
                    ELSE Return(p, Nil)
    /\ UNCHANGED <<committed, writer, commitLog, account, transfers,
                   readBalance, result, bulkTransfer, ctxDone>>
    /\ NoRead

(***************************************************************************)
(* AccountStore.Atomic after the callback: rollback or commit.             *)
(***************************************************************************)
\* mutant: Atomic drops the callback's error and commits
CallbackNeverFailed(err) == FALSE

\* if err = cb(txStore); err != nil
CallbackFailed(err) == err # Nil

\* mutant: a failed attempt is started again
FinishOrRetry(p, err) ==
    /\ pc' = [pc EXCEPT ![p] = IF err # Nil THEN "begin" ELSE "done"]
    /\ result' = [result EXCEPT ![p] = err]
    /\ account' = [account EXCEPT ![p] = ZeroAccount]
    /\ transfers' = [transfers EXCEPT ![p] = <<>>]
    /\ idx' = [idx EXCEPT ![p] = 0]
    /\ cbErr' = [cbErr EXCEPT ![p] = Nil]
    /\ readBalance' = [readBalance EXCEPT ![p] = 0]

\* ProcessBulkTransfer returns err to its caller; the call's locals die
Finish(p, err) ==
    /\ pc' = [pc EXCEPT ![p] = "done"]
    /\ result' = [result EXCEPT ![p] = err]
    /\ account' = [account EXCEPT ![p] = ZeroAccount]
    /\ transfers' = [transfers EXCEPT ![p] = <<>>]
    /\ idx' = [idx EXCEPT ![p] = 0]
    /\ cbErr' = [cbErr EXCEPT ![p] = Nil]
    /\ readBalance' = [readBalance EXCEPT ![p] = 0]

\* tx.Rollback() after a failed callback.  Rollback does not look at the
\* context; it fails with ErrTxDone when the transaction was already rolled
\* back for the cancelled context, and then both errors are returned.
\* the error of tx.Rollback()
RollbackErr(p) == IF tx[p].open THEN Nil ELSE ErrTxDone

\* mutant: Atomic reports a failure of its own in place of the callback's
RollbackResultOpaque(err, rbErr) == {"transaction failed"}

\* mutant: the rollback error is formatted into the message, not wrapped
RollbackResultFirstOnly(err, rbErr) ==
    IF rbErr # Nil
    THEN {"transaction error", "rollback error"} \cup err
    ELSE err

\* what Atomic returns after rolling back for the callback's error err
RollbackResult(err, rbErr) ==
    IF rbErr # Nil
    THEN {"transaction error", "rollback error"} \cup err \cup rbErr
    ELSE err

AtomicRollback(p) ==
    /\ pc[p] = "end"
    /\ CallbackFailed(cbErr[p])
    /\ IF tx[p].open
       THEN EndTx(p)
       ELSE UNCHANGED <<tx, writer>>
    /\ Finish(p, RollbackResult(cbErr[p], RollbackErr(p)))
    /\ UNCHANGED <<committed, commitLog, bulkTransfer, ctxDone>>
    /\ NoRead

\* tx.Commit() after a successful callback.  Commit checks the context
\* first and then returns its error without touching the transaction, which
\* database/sql rolls back on its own (AwaitDone); a COMMIT the store fails
\* leaves nothing committed and the driver rolls the transaction back.
\* mutant: Commit does not look at the context
CommitErrIgnoringContext(p, io) == IF io THEN ErrIO ELSE Nil

\* the error of tx.Commit(); io is the store failing the COMMIT
CommitErr(p, io) ==
    IF ctxDone[p] THEN (IF tx[p].open THEN CtxErr ELSE ErrTxDone)
    ELSE IF io THEN ErrIO
    ELSE Nil

AtomicCommit(p) ==
    /\ pc[p] = "end"
    /\ ~CallbackFailed(cbErr[p])
    /\ \E io \in BOOLEAN :
        IF CommitErr(p, io) # Nil /\ ctxDone[p]
        THEN /\ Finish(p, Wrapf("failed to commit transaction", CommitErr(p, io)))
             /\ UNCHANGED <<committed, commitLog, tx, writer>>
        ELSE IF CommitErr(p, io) # Nil
        THEN /\ Finish(p, Wrapf("failed to commit transaction", CommitErr(p, io)))
             /\ EndTx(p)
             /\ UNCHANGED <<committed, commitLog>>
        ELSE /\ committed' = tx[p].db
             /\ commitLog' = Append(commitLog, p)
             /\ EndTx(p)
             /\ Finish(p, Nil)
    /\ UNCHANGED <<bulkTransfer, ctxDone>>
    /\ NoRead

(***************************************************************************)
(* The caller's context and database/sql's watcher of it.                  *)
(***************************************************************************)
InFlight(p) == pc[p] \in {"begin", "get", "debit", "update", "add", "end"}

\* the context deadline expires or the caller cancels, during the call
Cancel(p) ==
    /\ InFlight(p)
    /\ ~ctxDone[p]
    /\ ctxDone' = [ctxDone EXCEPT ![p] = TRUE]
    /\ UNCHANGED <<storeVars, localVars, pc, bulkTransfer, result>>
    /\ NoRead

\* Tx.awaitDone: the goroutine database/sql starts in BeginTx rolls the
\* transaction back once the context is done
AwaitDone(p) ==
    /\ ctxDone[p]
    /\ tx[p].open
    /\ EndTx(p)
    /\ UNCHANGED <<committed, commitLog, localVars, pc, bulkTransfer,
                   ctxDone, result>>
    /\ NoRead

(***************************************************************************)
(* A read outside any transaction, on the pool (TestSuite.GetAccountBalance *)
(* and CountTransactions: s.DB.QueryRow).                                  *)
(***************************************************************************)
\* mutant: the reader shares the writer's uncommitted pages
ReaderViewDirty ==
    IF \E p \in Procs : tx[p].open
    THEN tx[CHOOSE p \in Procs : tx[p].open].db
    ELSE committed

\* the snapshot a connection outside the write transaction reads
ReaderView == committed

\* SELECT COUNT(*) FROM transactions WHERE bank_account_id = ?
CountTransactions(db, id) ==
    Cardinality({i \in 1..Len(db.rows) : db.rows[i].bank_account_id = id})

Read(id) ==
    /\ ~ReadersBlocked(writer)
    /\ observed' = [id |-> id,
                    balance |-> ReaderView.balance[id],
                    count |-> CountTransactions(ReaderView, id),
                    duringWrite |-> \E p \in Procs : tx[p].open]
    /\ outside' = NoCall
    /\ UNCHANGED <<storeVars, localVars, pc, bulkTransfer, ctxDone, result, unit,
                   handler>>

(***************************************************************************)
(* The repository operations called on a store outside Atomic: the store   *)
(* NewAccountStore returns, whose tx is nil.                               *)
(***************************************************************************)
\* NewAccountStore(db): AccountStore{db: db}
NewAccountStore == [tx |-> "nil"]

\* mutant: the operations do not look at s.tx
TxIsNilUnchecked(s) == FALSE

\* if s.tx == nil
TxIsNil(s) == s.tx = "nil"

\* an operation op called on store s: with a nil tx it returns its error (and
\* the zero Account) before any statement; past the check, the statement on
\* the nil *sql.Tx panics and the operation does not return
CallOutside(s, op) ==
    /\ outside' =
         IF TxIsNil(s)
         THEN [op |-> op, returned |-> TRUE,
               err |-> {op \o " must be called within Atomic transaction"},
               account |-> ZeroAccount]
         ELSE [op |-> op, returned |-> FALSE, err |-> Nil,
               account |-> ZeroAccount]
    /\ observed' = NoObservation
    /\ UNCHANGED <<storeVars, localVars, pc, bulkTransfer, ctxDone, result, unit,
                   handler>>

OutsideGetAccountByID ==
    \E k \in RequestKeys : CallOutside(NewAccountStore, "GetAccountByID")

OutsideUpdateBalance ==
    \E id \in AccountIDs : CallOutside(NewAccountStore, "UpdateBalance")

OutsideAddTransfers ==
    \E ts \in SeqsUpTo({Transfer(1)}, 1) :
        CallOutside(NewAccountStore, "AddTransfers")

(***************************************************************************)
(* The domain model's methods called on their own, on any int64 values.    *)
(***************************************************************************)
\* how far from 0, MinInt64 and MaxInt64 the values of the calls reach
Spread == 8

\* the int64 values the methods are called on: those around 0 and those at
\* both ends of the range
UnitValues ==
    ((0 - Spread)..Spread)
        \cup (MinInt64..(MinInt64 + Spread))
        \cup ((MaxInt64 - Spread)..MaxInt64)

\* longest list TotalAmount is called on
MaxUnitLen == 3

\* amounts of the lists TotalAmount is called on
UnitAmounts == {0, 1, 2, MaxInt64}

\* the receiver and the arguments of a call: an account and an amount for
\* HasSufficientFunds and Debit, a transfer list for TotalAmount
UnitInputs ==
    {[NoUnit EXCEPT !.acc = [ID |-> 1, BalanceCents |-> b], !.amount = a] :
        b \in UnitValues, a \in UnitValues}
    \cup {[NoUnit EXCEPT !.ts = ts] :
            ts \in SeqsUpTo({Transfer(a) : a \in UnitAmounts}, MaxUnitLen)}

InitUnit == InitService /\ unit \in UnitInputs /\ handler = NoExchange

serviceVars == <<committed, writer, tx, pc, bulkTransfer, ctxDone, account,
                 transfers, idx, cbErr, result, readBalance, commitLog,
                 observed, outside, handler>>

\* account.HasSufficientFunds(amount): the method assigns nothing
CallHasSufficientFunds ==
    /\ unit.op = ""
    /\ unit.acc.ID # 0
    /\ unit' = [unit EXCEPT !.op = "HasSufficientFunds",
                            !.ok = HasSufficientFunds(unit.acc, unit.amount),
                            !.accAfter = unit.acc]
    /\ UNCHANGED serviceVars

\* account.Debit(amount)
CallDebit ==
    /\ unit.op = ""
    /\ unit.acc.ID # 0
    /\ unit' = [unit EXCEPT !.op = "Debit",
                            !.err = DebitErr(unit.acc, unit.amount),
                            !.accAfter = DebitAccount(unit.acc, unit.amount)]
    /\ UNCHANGED serviceVars

\* BulkTransfer{Transfers: ts}.TotalAmount()
CallTotalAmount ==
    /\ unit.op = ""
    /\ unit.acc.ID = 0
    /\ unit' = [unit EXCEPT !.op = "TotalAmount",
                            !.total = TotalAmount([Transfers |-> unit.ts])]
    /\ UNCHANGED serviceVars

NextUnit == CallHasSufficientFunds \/ CallDebit \/ CallTotalAmount

\* the domain model alone
SpecUnit == InitUnit /\ [][NextUnit]_vars

(***************************************************************************)
(* AddTransfers on lists longer than a batch: a callback that hands        *)
(* AddTransfers a list of n transfers, inside Atomic.                      *)
(***************************************************************************)
\* longest list handed to AddTransfers
MaxBatchLen == 201

\* the i-th transfer of such a list: told apart by its description, owned
\* by account id (0: the owner was not resolved)
TransferNo(i, id) == [BankAccountID |-> id, AmountCents |-> 1, Description |-> i]

\* the lists: n transfers of account 1, the one at position j (the first, the
\* last of the first batch, the first of the second, the last; 0: none)
\* without owner
BatchInputs ==
    {[i \in 1..n |-> TransferNo(i, IF i = j THEN 0 ELSE 1)] :
        n \in 0..MaxBatchLen, j \in {0, 1, batchSize, batchSize + 1, MaxBatchLen}}

\* goroutine 1 is inside Atomic, its callback about to call AddTransfers
InitBatch ==
    /\ committed = InitDB
    /\ writer = 1
    /\ tx = [p \in Procs |-> IF p = 1 THEN [open |-> TRUE, db |-> InitDB] ELSE NoTx]
    /\ pc = [p \in Procs |-> IF p = 1 THEN "add" ELSE "idle"]
    /\ bulkTransfer = [p \in Procs |-> NoBulkTransfer]
    /\ ctxDone = [p \in Procs |-> FALSE]
    /\ account = [p \in Procs |-> ZeroAccount]
    /\ \E ts \in BatchInputs :
        transfers = [p \in Procs |-> IF p = 1 THEN ts ELSE <<>>]
    /\ idx = [p \in Procs |-> 0]
    /\ cbErr = [p \in Procs |-> Nil]
    /\ result = [p \in Procs |-> Nil]
    /\ readBalance = [p \in Procs |-> 0]
    /\ commitLog = <<>>
    /\ observed = NoObservation
    /\ outside = NoCall
    /\ unit = NoUnit
    /\ handler = NoExchange

NextBatch ==
    \E p \in Procs :
        \/ AddTransfers(p)
        \/ AtomicRollback(p)
        \/ AtomicCommit(p)

\* AddTransfers and the end of its Atomic
SpecBatch == InitBatch /\ [][NextBatch]_vars

\* a callback that discards the error AddTransfers returned and goes on to
\* return nil to Atomic
IgnoreError(p) ==
    /\ pc[p] = "end"
    /\ cbErr[p] # Nil
    /\ cbErr' = [cbErr EXCEPT ![p] = Nil]
    /\ UNCHANGED <<committed, writer, tx, pc, bulkTransfer, ctxDone, account,
                   transfers, idx, result, readBalance, commitLog>>
    /\ NoRead

NextIgnoredError ==
    \/ NextBatch
    \/ \E p \in Procs : IgnoreError(p) \/ Cancel(p) \/ AwaitDone(p)

\* AddTransfers under a callback that may ignore its error and a context that
\* may be cancelled
SpecIgnoredError == InitBatch /\ [][NextIgnoredError]_vars

(***************************************************************************)
(* UpdateBalance on any account value: a callback that hands UpdateBalance *)
(* an account it built itself, inside Atomic.                              *)
(***************************************************************************)
\* ids of the accounts handed to UpdateBalance: the stored rows, the zero
\* value and an id no row has
UpdateIDs == AccountIDs \cup {0, 3}

\* goroutine 1 is inside Atomic, its callback about to call UpdateBalance
InitUpdate ==
    /\ committed = InitDB
    /\ writer = 1
    /\ tx = [p \in Procs |-> IF p = 1 THEN [open |-> TRUE, db |-> InitDB] ELSE NoTx]
    /\ pc = [p \in Procs |-> IF p = 1 THEN "update" ELSE "idle"]
    /\ \E bt \in {b \in BulkTransfers :
                    /\ <<b.OrganizationIBAN, b.OrganizationBIC>> = AccountKey(1)
                    /\ Len(b.Transfers) <= 1} :
        bulkTransfer = [p \in Procs |-> IF p = 1 THEN bt ELSE NoBulkTransfer]
    /\ ctxDone = [p \in Procs |-> FALSE]
    /\ \E id \in UpdateIDs, balance \in UnitValues :
        account = [p \in Procs |->
                      IF p = 1 THEN [ID |-> id, BalanceCents |-> balance]
                      ELSE ZeroAccount]
    /\ transfers = [p \in Procs |-> <<>>]
    /\ idx = [p \in Procs |-> 0]
    /\ cbErr = [p \in Procs |-> Nil]
    /\ result = [p \in Procs |-> Nil]
    /\ readBalance = [p \in Procs |-> 0]
    /\ commitLog = <<>>
    /\ observed = NoObservation
    /\ outside = NoCall
    /\ unit = NoUnit
    /\ handler = NoExchange

NextUpdate ==
    \E p \in Procs :
        \/ UpdateBalance(p)
        \/ AddTransfers(p)
        \/ AtomicRollback(p)
        \/ AtomicCommit(p)

\* UpdateBalance and the rest of its Atomic
SpecUpdate == InitUpdate /\ [][NextUpdate]_vars

(***************************************************************************)
(* One call on a seeded store, and a client reading the tables             *)
(* (TestBulkTransfer_E2E_HappyPath).                                       *)
(***************************************************************************)
\* initialBalance
HappyPathBalance == 1000000

\* the amounts of the request's credit transfers, in cents
HappyPathAmounts == <<10050, 25075, 7525>>

\* the bulk transfer of the request, on account 1; the i-th transfer is
\* told apart by its description
HappyPathTransfer ==
    [OrganizationIBAN |-> AccountKey(1)[1],
     OrganizationBIC |-> AccountKey(1)[2],
     Transfers |-> [i \in 1..Len(HappyPathAmounts) |->
                     [BankAccountID |-> 0, AmountCents |-> HappyPathAmounts[i],
                      Description |-> i]]]

\* SeedAccount(..., initialBalance)
HappyPathDB == [InitDB EXCEPT !.balance[1] = HappyPathBalance]

\* the store is seeded and the call has arrived in goroutine 1
InitHappyPath ==
    /\ committed = HappyPathDB
    /\ writer = 0
    /\ tx = [p \in Procs |-> NoTx]
    /\ pc = [p \in Procs |-> IF p = 1 THEN "begin" ELSE "idle"]
    /\ bulkTransfer = [p \in Procs |-> IF p = 1 THEN HappyPathTransfer
                                        ELSE NoBulkTransfer]
    /\ ctxDone = [p \in Procs |-> FALSE]
    /\ account = [p \in Procs |-> ZeroAccount]
    /\ transfers = [p \in Procs |-> <<>>]
    /\ idx = [p \in Procs |-> 0]
    /\ cbErr = [p \in Procs |-> Nil]
    /\ result = [p \in Procs |-> Nil]
    /\ readBalance = [p \in Procs |-> 0]
    /\ commitLog = <<>>
    /\ observed = NoObservation
    /\ outside = NoCall
    /\ unit = NoUnit
    /\ handler = NoExchange

NextHappyPath ==
    \/ \E p \in Procs :
        \/ BeginTx(p)
        \/ GetAccountByID(p)
        \/ Debit(p)
        \/ UpdateBalance(p)
        \/ AddTransfers(p)
        \/ AtomicRollback(p)
        \/ AtomicCommit(p)
        \/ Cancel(p)
        \/ AwaitDone(p)
    \/ \E id \in AccountIDs : Read(id)

\* the one call of the test, alone on the store
SpecHappyPath == InitHappyPath /\ [][NextHappyPath]_vars

(***************************************************************************)
(* Handler.PostTransfers: the request is decoded, validated and converted, *)
(* ProcessBulkTransfer is called in goroutine 1, its error is mapped to a  *)
(* status.                                                                 *)
(***************************************************************************)
\* texts a request may carry as an amount
AmountTexts == {"", " ", "abc", "-1", "0", "1"}

\* CreditTransfer as decoded: Rest stands for CounterpartyName,
\* CounterpartyBIC, CounterpartyIBAN and Description being all non-empty
CreditTransfers ==
    {[Amount |-> a, Currency |-> "EUR", Rest |-> TRUE] : a \in AmountTexts}
        \cup {[Amount |-> "1", Currency |-> c, Rest |-> TRUE] : c \in {"", "USD"}}
        \cup {[Amount |-> "1", Currency |-> "EUR", Rest |-> FALSE]}

\* request bodies: one that json.Decode refuses, and the BulkTransferRequest
\* values of those it accepts
Bodies ==
    {[Decodes |-> FALSE, OrganizationBIC |-> "", OrganizationIBAN |-> "",
      CreditTransfers |-> <<>>]}
        \cup {[Decodes |-> TRUE, OrganizationBIC |-> bic, OrganizationIBAN |-> iban,
               CreditTransfers |-> cts] :
                bic \in {"", "BIC1", "BIC2"}, iban \in {"", "IBAN1", "IBAN2"},
                cts \in SeqsUpTo(CreditTransfers, MaxLen)}

\* utf8.RuneCountInString, which the validator's gt compares for a string
RuneCount(text) ==
    CASE text = "" -> 0
      [] text = "abc" -> 3
      [] text = "-1" -> 2
      [] OTHER -> 1

\* validate:"required,gt=0" on Amount, "required,eq=EUR" on Currency,
\* "required" on the other fields
ValidCreditTransfer(ct) ==
    /\ ct.Amount # ""
    /\ RuneCount(ct.Amount) > 0
    /\ ct.Currency # ""
    /\ ct.Currency = "EUR"
    /\ ct.Rest

\* h.validator.Struct(&req): "required" on the organization's fields,
\* "required,min=1,dive" on CreditTransfers
Valid(req) ==
    /\ req.OrganizationBIC # ""
    /\ req.OrganizationIBAN # ""
    /\ Len(req.CreditTransfers) >= 1
    /\ \A i \in 1..Len(req.CreditTransfers) :
          ValidCreditTransfer(req.CreditTransfers[i])

\* strings.TrimSpace
TrimSpace(text) == IF text = " " THEN "" ELSE text

\* strconv.ParseFloat(text, 64)
ParseFloat(text) ==
    CASE text = "0" -> [value |-> 0, err |-> Nil]
      [] text = "1" -> [value |-> 1, err |-> Nil]
      [] text = "-1" -> [value |-> 0 - 1, err |-> Nil]
      [] OTHER -> [value |-> 0, err |-> {"strconv.ParseFloat: invalid syntax"}]

\* ParseAmountToCents
ParseAmountToCents(amount) ==
    LET trimmed == TrimSpace(amount)
        parsed == ParseFloat(trimmed)
    IN  IF trimmed = ""
        THEN [cents |-> 0, err |-> {"amount cannot be empty"}]
        ELSE IF parsed.err # Nil
        THEN [cents |-> 0, err |-> Wrapf("invalid amount format", parsed.err)]
        ELSE IF parsed.value < 0
        THEN [cents |-> 0, err |-> {"amount cannot be negative"}]
        ELSE [cents |-> Wrap(parsed.value * 100), err |-> Nil]

\* BulkTransferRequest.ToDomain
ToDomain(req) ==
    LET parsed == [i \in 1..Len(req.CreditTransfers) |->
                      ParseAmountToCents(req.CreditTransfers[i].Amount)]
        failed == {i \in 1..Len(req.CreditTransfers) : parsed[i].err # Nil}
    IN  IF failed # {}
        THEN [bulkTransfer |-> NoBulkTransfer,
              err |-> Wrapf("invalid amount for transfer",
                            parsed[CHOOSE i \in failed :
                                      \A j \in failed : i <= j].err)]
        ELSE [bulkTransfer |->
                [OrganizationIBAN |-> req.OrganizationIBAN,
                 OrganizationBIC |-> req.OrganizationBIC,
                 Transfers |-> [i \in 1..Len(req.CreditTransfers) |->
                                 Transfer(parsed[i].cents)]],
              err |-> Nil]

\* mutant: the error is compared with the sentinels, not unwrapped
StatusOfExact(err) ==
    IF err = Nil THEN 201
    ELSE IF err = ErrAccountNotFound THEN 404
    ELSE IF err = ErrInsufficientFunds THEN 422
    ELSE 500

\* the status PostTransfers answers for what ProcessBulkTransfer returned
StatusOf(err) ==
    IF err = Nil THEN 201
    ELSE IF IsErr(err, ErrAccountNotFound) THEN 404
    ELSE IF IsErr(err, ErrInsufficientFunds) THEN 422
    ELSE 500

\* PostTransfers up to its call of ProcessBulkTransfer
PostTransfers ==
    /\ handler.stage = ""
    /\ pc[1] = "idle"
    /\ \E body \in Bodies :
        LET domain == ToDomain(body)
        IN  IF ~body.Decodes \/ ~Valid(body) \/ domain.err # Nil
            THEN /\ handler' = [stage |-> "answered", body |-> body,
                                invoked |-> FALSE, status |-> 400]
                 /\ UNCHANGED <<pc, bulkTransfer, result>>
            ELSE /\ handler' = [stage |-> "processing", body |-> body,
                                invoked |-> TRUE, status |-> 0]
                 /\ bulkTransfer' = [bulkTransfer EXCEPT ![1] = domain.bulkTransfer]
                 /\ IF NoTransfers(domain.bulkTransfer)
                    THEN /\ pc' = [pc EXCEPT ![1] = "done"]
                         /\ result' = [result EXCEPT ![1] = Nil]
                    ELSE /\ pc' = [pc EXCEPT ![1] = "begin"]
                         /\ UNCHANGED result
    /\ observed' = NoObservation
    /\ outside' = NoCall
    /\ UNCHANGED <<storeVars, localVars, ctxDone, unit>>

\* PostTransfers after ProcessBulkTransfer returned
Respond ==
    /\ handler.stage = "processing"
    /\ pc[1] = "done"
    /\ handler' = [handler EXCEPT !.stage = "answered",
                                  !.status = StatusOf(result[1])]
    /\ observed' = NoObservation
    /\ outside' = NoCall
    /\ UNCHANGED <<storeVars, localVars, pc, bulkTransfer, ctxDone, result, unit>>

\* the store is seeded, no request received
InitHandler ==
    /\ committed = HappyPathDB
    /\ writer = 0
    /\ tx = [p \in Procs |-> NoTx]
    /\ pc = [p \in Procs |-> "idle"]
    /\ bulkTransfer = [p \in Procs |-> NoBulkTransfer]
    /\ ctxDone = [p \in Procs |-> FALSE]
    /\ account = [p \in Procs |-> ZeroAccount]
    /\ transfers = [p \in Procs |-> <<>>]
    /\ idx = [p \in Procs |-> 0]
    /\ cbErr = [p \in Procs |-> Nil]
    /\ result = [p \in Procs |-> Nil]
    /\ readBalance = [p \in Procs |-> 0]
    /\ commitLog = <<>>
    /\ observed = NoObservation
    /\ outside = NoCall
    /\ unit = NoUnit
    /\ handler = NoExchange

NextHandler ==
    \/ PostTransfers
    \/ Respond
    \/ \E p \in Procs :
        \/ BeginTx(p)
        \/ GetAccountByID(p)
        \/ Debit(p)
        \/ UpdateBalance(p)
        \/ AddTransfers(p)
        \/ AtomicRollback(p)
        \/ AtomicCommit(p)
        \/ Cancel(p)
        \/ AwaitDone(p)

\* one request served by the handler and the service behind it
SpecHandler == InitHandler /\ [][NextHandler]_vars

(***************************************************************************)
(* Specifications.                                                         *)
(***************************************************************************)
Next ==
    \E p \in Procs :
        \/ Call(p)
        \/ BeginTx(p)
        \/ BeginBusyTimeout(p)
        \/ GetAccountByID(p)
        \/ Debit(p)
        \/ UpdateBalance(p)
        \/ AddTransfers(p)
        \/ AtomicRollback(p)
        \/ AtomicCommit(p)
        \/ Cancel(p)
        \/ AwaitDone(p)

\* the service alone
Spec == Init /\ [][Next]_vars

\* the service, the goroutine that watches a transaction's context being
\* scheduled whenever it has a transaction to roll back
SpecFair == Spec /\ \A p \in Procs : WF_vars(AwaitDone(p))

\* the steps of goroutine p's call once it has arrived
Step(p) ==
    \/ BeginTx(p)
    \/ BeginBusyTimeout(p)
    \/ GetAccountByID(p)
    \/ Debit(p)
    \/ UpdateBalance(p)
    \/ AddTransfers(p)
    \/ AtomicRollback(p)
    \/ AtomicCommit(p)

\* the service, every goroutine being scheduled: a call that can take a step
\* takes one (the callback terminates, the wait for the lock ends with the
\* lock or the busy timeout), and so does the watcher of a context
FairScheduling == \A p \in Procs : WF_vars(Step(p)) /\ WF_vars(AwaitDone(p))

\* the calls that contend for the lock: on either account or on no account,
\* with lists of amount 1
ContendingTransfers ==
    {bt \in BulkTransfers :
        /\ bt.Transfers # <<>>
        /\ \A i \in 1..Len(bt.Transfers) : bt.Transfers[i].AmountCents = 1}

\* every goroutine's call has arrived and is about to begin its transaction
InitProgress ==
    /\ committed = InitDB
    /\ writer = 0
    /\ tx = [p \in Procs |-> NoTx]
    /\ pc = [p \in Procs |-> "begin"]
    /\ bulkTransfer \in [Procs -> ContendingTransfers]
    /\ ctxDone = [p \in Procs |-> FALSE]
    /\ account = [p \in Procs |-> ZeroAccount]
    /\ transfers = [p \in Procs |-> <<>>]
    /\ idx = [p \in Procs |-> 0]
    /\ cbErr = [p \in Procs |-> Nil]
    /\ result = [p \in Procs |-> Nil]
    /\ readBalance = [p \in Procs |-> 0]
    /\ commitLog = <<>>
    /\ observed = NoObservation
    /\ outside = NoCall
    /\ unit = NoUnit
    /\ handler = NoExchange

NextProgress == \E p \in Procs : Step(p) \/ Cancel(p) \/ AwaitDone(p)

SpecProgress == InitProgress /\ [][NextProgress]_vars /\ FairScheduling

NextWithReader == Next \/ \E id \in AccountIDs : Read(id)

\* the service and a client reading the tables while it runs
SpecWithReader == Init /\ [][NextWithReader]_vars

NextWithOutside ==
    \/ Next
    \/ OutsideGetAccountByID
    \/ OutsideUpdateBalance
    \/ OutsideAddTransfers

\* the service and a caller of the repository operations outside Atomic
SpecWithOutside == Init /\ [][NextWithOutside]_vars

TypeOK ==
    /\ writer \in Procs \cup {0}
    /\ \A p \in Procs : pc[p] \in {"idle", "done"} \/ InFlight(p)
    /\ \A id \in AccountIDs : committed.balance[id] \in MinInt64..MaxInt64

(***************************************************************************)
(* Vocabulary of the properties.                                           *)
(***************************************************************************)
Range(f) == {f[i] : i \in DOMAIN f}

\* the bank_accounts row a call addresses: its id, or 0 when none matches
TargetOf(p) ==
    LET found == SelectAccount(bulkTransfer[p].OrganizationIBAN,
                               bulkTransfer[p].OrganizationBIC)
    IN  IF found = {} THEN 0 ELSE CHOOSE i \in found : TRUE

\* the transactions rows of one account, in id order
RowsOf(db, id) == SelectSeq(db.rows, LAMBDA r : r.bank_account_id = id)

\* the rows a call persists when it takes effect: one per transfer, in input
\* order, owned by the account, the magnitude stored negated
RowsFor(p) ==
    [i \in 1..Len(bulkTransfer[p].Transfers) |->
        [bank_account_id |-> TargetOf(p),
         amount_cents |-> Wrap(0 - bulkTransfer[p].Transfers[i].AmountCents),
         description |-> bulkTransfer[p].Transfers[i].Description]]

\* the whole effect of a call on a database: the debit of TotalAmount and
\* every transfer
FullEffect(db, p) ==
    [balance |-> [db.balance EXCEPT ![TargetOf(p)] =
                     Wrap(@ - TotalAmount(bulkTransfer[p]))],
     rows |-> db.rows \o RowsFor(p)]

\* the database after the whole effects of the calls of log, in that order
RECURSIVE Replay(_, _)
Replay(db, log) ==
    IF log = <<>> THEN db ELSE Replay(FullEffect(db, Head(log)), Tail(log))

\* the environment failed the call: its context was cancelled, the store
\* failed one of its statements, or its wait for the write lock timed out
Faulted(p) ==
    \/ ctxDone[p]
    \/ ErrIO \subseteq (cbErr[p] \cup result[p])
    \/ ErrBusy \subseteq result[p]

Committed(p) == p \in Range(commitLog)

(***************************************************************************)
(* C1  All-or-nothing.  In every reachable state the committed database is *)
(* the initial one changed by the whole effect (the balance debited by     *)
(* TotalAmount and every transfer persisted) of each call that committed,  *)
(* in commit order, and by nothing else: no call has left a debit without  *)
(* all its transfers, transfers without the debit, or some of its          *)
(* transfers only.                                                         *)
(***************************************************************************)
C1_AllOrNothing ==
    /\ committed = Replay(InitDB, commitLog)
    /\ \A i, j \in DOMAIN commitLog : commitLog[i] = commitLog[j] => i = j
    /\ \A p \in Procs : Committed(p) => TargetOf(p) # 0

\* one call has committed and another has failed at its insert, after its
\* UpdateBalance wrote the debit inside the transaction
C1_Witness ==
    \E p, q \in Procs :
        /\ Committed(p)
        /\ pc[q] = "done"
        /\ "failed to bulk insert transfers" \in result[q]

(***************************************************************************)
(* C2  Race safety.  Two calls on the same account, each requiring an      *)
(* amount a with B/2 < a <= B of the committed balance B, neither          *)
(* cancelled nor failed by the store in a statement, and neither timed out *)
(* in its wait for the write lock: once both have returned, whatever the   *)
(* interleaving, exactly one has committed and returned nil, the other has *)
(* returned InsufficientFunds, the balance is B minus the winner's amount  *)
(* and the account's rows are exactly the winner's transfers.  Whatever    *)
(* the environment does, the two never both commit.                        *)
(***************************************************************************)
\* the call has returned and required more than half and at most all of the
\* account's balance
Requires(p, id) ==
    /\ pc[p] = "done"
    /\ TargetOf(p) = id
    /\ 2 * TotalAmount(bulkTransfer[p]) > InitialBalance(id)
    /\ TotalAmount(bulkTransfer[p]) <= InitialBalance(id)

\* nothing outside the two calls interfered with p: its context was not
\* cancelled and the store failed none of its statements
Undisturbed(p) ==
    /\ ~ctxDone[p]
    /\ ~(ErrIO \subseteq (cbErr[p] \cup result[p]))

\* no call besides p and q has committed on the account
OnlyThese(p, q, id) ==
    \A r \in Procs \ {p, q} : ~(Committed(r) /\ TargetOf(r) = id)

\* w committed and l was refused
WonOver(w, l, id) ==
    /\ result[w] = Nil
    /\ Committed(w)
    /\ result[l] = ErrInsufficientFunds
    /\ ~Committed(l)
    /\ committed.balance[id] = InitialBalance(id) - TotalAmount(bulkTransfer[w])
    /\ RowsOf(committed, id) = RowsFor(w)

C2_RaceSafety ==
    \A id \in AccountIDs : \A p, q \in Procs :
        (p # q /\ Requires(p, id) /\ Requires(q, id) /\ OnlyThese(p, q, id))
            => /\ ~(Committed(p) /\ Committed(q))
               /\ (~Faulted(p) /\ ~Faulted(q))
                    => (WonOver(p, q, id) \/ WonOver(q, p, id))

\* two such calls have both returned, none of them failed by the environment
C2_Witness ==
    \E id \in AccountIDs : \E p, q \in Procs :
        /\ p # q /\ Requires(p, id) /\ Requires(q, id) /\ OnlyThese(p, q, id)
        /\ ~Faulted(p) /\ ~Faulted(q)

\* C2 as claimed: in every interleaving of two such calls that nothing
\* outside them disturbs, exactly one commits and the other returns
\* InsufficientFunds
C2_AsStated ==
    \A id \in AccountIDs : \A p, q \in Procs :
        (/\ p # q /\ Requires(p, id) /\ Requires(q, id) /\ OnlyThese(p, q, id)
         /\ Undisturbed(p) /\ Undisturbed(q))
            => (WonOver(p, q, id) \/ WonOver(q, p, id))

(***************************************************************************)
(* C3  No overdraft, as claimed: the committed balance of every account is *)
(* non-negative in every reachable state (all transfer amounts of the      *)
(* model are non-negative).                                                *)
(***************************************************************************)
C3_NoOverdraft == \A id \in AccountIDs : committed.balance[id] >= 0

(***************************************************************************)
(* C4  Conservation, as claimed: when a call with a non-empty list returns *)
(* nil, the committed balance it leaves is the balance its transaction     *)
(* read minus the sum of the transfer amounts, and the stored amounts of   *)
(* the rows it persisted sum to the negation of that sum.                  *)
(***************************************************************************)
RECURSIVE SumStored(_)
SumStored(rows) ==
    IF rows = <<>> THEN 0 ELSE Head(rows).amount_cents + SumStored(Tail(rows))

\* the step in which p's call returns nil after its commit
ReturnsNil(p) == pc[p] = "end" /\ pc'[p] = "done" /\ result'[p] = Nil

C4_Conservation ==
    [][\A p \in Procs :
        ReturnsNil(p) =>
            LET sum == TrueSum(bulkTransfer[p].Transfers)
                new == SubSeq(committed'.rows, Len(committed.rows) + 1,
                              Len(committed'.rows))
            IN  /\ committed'.balance[account[p].ID] = readBalance[p] - sum
                /\ SumStored(new) = 0 - sum]_vars

(***************************************************************************)
(* C5  Atomicity on failure.  The committed balance and transfer set       *)
(* change only in the step in which a call whose callback succeeded        *)
(* commits and returns nil; the step in which a call returns an error, and *)
(* every earlier step of any call, leave them as they were: a call that    *)
(* fails at Debit, UpdateBalance, AddTransfers or the commit has changed   *)
(* nothing, even when its UpdateBalance had succeeded in the transaction.  *)
(***************************************************************************)
C5_AtomicityOnFailure ==
    [][/\ committed' # committed =>
            \E p \in Procs : ReturnsNil(p) /\ cbErr[p] = Nil
       /\ \A p \in Procs :
            (pc[p] # "done" /\ pc'[p] = "done" /\ result'[p] # Nil)
                => committed' = committed
       /\ \A p \in Procs :
            pc[p] = "done" => (pc'[p] = "done" /\ result'[p] = result[p])]_vars

\* one call has failed at its insert, after its UpdateBalance, and one at
\* its commit
C5_Witness ==
    \E p, q \in Procs :
        /\ pc[p] = "done" /\ "failed to bulk insert transfers" \in result[p]
        /\ pc[q] = "done" /\ "failed to commit transaction" \in result[q]

(***************************************************************************)
(* C6  No lost update, as claimed: when every call is on the same account  *)
(* with one transfer of the same amount d, the balance covers them all and *)
(* the environment fails none, all return nil, the balance is the initial  *)
(* one less d per call and the account has one row per call; and in every  *)
(* reachable state the committed balance of an account is its initial      *)
(* balance plus the sum of the stored amounts of its committed transfers.  *)
(***************************************************************************)
AllDone == \A p \in Procs : pc[p] = "done"

\* every call is one transfer of d on account id, unfailed
SameDebit(id, d) ==
    \A p \in Procs :
        /\ ~Faulted(p)
        /\ TargetOf(p) = id
        /\ Len(bulkTransfer[p].Transfers) = 1
        /\ bulkTransfer[p].Transfers[1].AmountCents = d

C6_NoLostUpdate ==
    /\ \A id \in AccountIDs :
        committed.balance[id] =
            InitialBalance(id) + SumStored(RowsOf(committed, id))
    /\ \A id \in AccountIDs : \A d \in AmountSet :
        (AllDone /\ SameDebit(id, d) /\ NumProcs * d <= InitialBalance(id))
            => /\ \A p \in Procs : result[p] = Nil
               /\ committed.balance[id] = InitialBalance(id) - NumProcs * d
               /\ Len(RowsOf(committed, id)) = NumProcs

(***************************************************************************)
(* C7  Total order on one account.  The balance a transaction has read     *)
(* inside Atomic is, for as long as the transaction stays open, the        *)
(* committed balance of the account: the one the most recent commit left,  *)
(* never one written by a transaction that is open or was rolled back and  *)
(* never an older one.  The committed state is therefore the result of     *)
(* executing the committed calls one after the other in commit order.      *)
(***************************************************************************)
\* p's callback has read its account and has not returned to Atomic's end
HasRead(p) ==
    /\ pc[p] \in {"debit", "update", "add", "end"}
    /\ account[p].ID # 0

C7_TotalOrder ==
    /\ \A p \in Procs :
        (tx[p].open /\ HasRead(p))
            => readBalance[p] = committed.balance[account[p].ID]
    /\ committed = Replay(InitDB, commitLog)

\* a transaction has read the balance that an earlier commit on the same
\* account left
C7_Witness ==
    \E p, q \in Procs :
        /\ tx[p].open /\ HasRead(p)
        /\ Committed(q) /\ TargetOf(q) = account[p].ID
        /\ readBalance[p] # InitialBalance(account[p].ID)

(***************************************************************************)
(* C8  Single writer.  At most one transaction is open at any moment and   *)
(* it is the holder of the write lock; a call whose context is not done    *)
(* holds the lock all through its callback, from before the first read to  *)
(* Atomic's commit or rollback; and no call is about to execute            *)
(* GetAccountByID on the store while another call's transaction is open.   *)
(***************************************************************************)
InCallback(p) == pc[p] \in {"get", "debit", "update", "add"}

C8_SingleWriter ==
    /\ Cardinality({p \in Procs : tx[p].open}) <= 1
    /\ \A p \in Procs : tx[p].open <=> writer = p
    /\ \A p \in Procs : pc[p] \in {"idle", "begin"} => ~tx[p].open
    /\ \A p \in Procs :
        ((InCallback(p) \/ pc[p] = "end") /\ ~ctxDone[p]) => writer = p
    /\ \A p, q \in Procs :
        (p # q /\ pc[p] = "get" /\ tx[p].open) => ~tx[q].open

\* one call is between UpdateBalance and its commit, holding the lock, while
\* another has called Atomic and waits to begin
C8_Witness ==
    \E p, q \in Procs :
        /\ p # q
        /\ pc[p] = "add" /\ writer = p /\ tx[p].db # committed
        /\ pc[q] = "begin" /\ ~ctxDone[q]

Uncommitted(p, id) ==
    /\ tx[p].open
    /\ pc[p] \in {"add", "end"}
    /\ tx[p].db.balance[id] # committed.balance[id]

ArrivesEmpty(p) ==
    /\ pc[p] = "idle"
    /\ pc'[p] # "idle"
    /\ Len(bulkTransfer'[p].Transfers) = 0

C11_NoOpOnEmpty ==
    [][\A p \in Procs :
        /\ ArrivesEmpty(p) =>
            /\ pc'[p] = "done"
            /\ result'[p] = Nil
            /\ UNCHANGED <<committed, tx, writer, commitLog>>
        /\ (pc[p] = "done" /\ Len(bulkTransfer[p].Transfers) = 0) =>
            /\ ~Committed(p)
            /\ pc'[p] = "done"]_vars

\* an empty call on an existing account has returned nil while another
\* call's transaction holds the write lock with uncommitted writes
C11_Witness ==
    \E p, q \in Procs :
        /\ pc[p] = "done"
        /\ result[p] = Nil
        /\ bulkTransfer[p].Transfers = <<>>
        /\ TargetOf(p) # 0
        /\ writer = q /\ tx[q].db # committed
        /\ committed = InitDB

(***************************************************************************)
(* C12  Atomic commits if and only if the callback returns nil.  In the    *)
(* step in which Atomic returns: after a callback that returned nil,       *)
(* either the transaction's writes become the committed database and       *)
(* Atomic returns nil, or the commit failed, nothing is committed and      *)
(* Atomic returns the wrapped commit error; after a callback that returned *)
(* an error e, nothing is committed, the transaction is closed, and Atomic *)
(* returns exactly e when its rollback succeeded, and e together with the  *)
(* rollback error when the transaction had already been rolled back.       *)
(***************************************************************************)
\* Atomic returns in this step, after the callback
AtomicReturns(p) == pc[p] = "end" /\ pc'[p] = "done"

\* the outcome of Atomic after a callback that returned nil
AfterNil(p) ==
    \/ /\ result'[p] = Nil
       /\ committed' = tx[p].db
       /\ commitLog' = Append(commitLog, p)
       /\ ~tx'[p].open
    \/ /\ "failed to commit transaction" \in result'[p]
       /\ UNCHANGED <<committed, commitLog>>

C12_AtomicCommitIff ==
    [][/\ \A p \in Procs :
            AtomicReturns(p) =>
                IF cbErr[p] = Nil
                THEN AfterNil(p)
                ELSE /\ UNCHANGED <<committed, commitLog>>
                     /\ ~tx'[p].open
                     /\ IF tx[p].open
                        THEN result'[p] = cbErr[p]
                        ELSE /\ cbErr[p] \subseteq result'[p]
                             /\ ErrTxDone \subseteq result'[p]
       /\ commitLog' # commitLog =>
            \E p \in Procs : AtomicReturns(p) /\ cbErr[p] = Nil]_vars

\* one call has committed and returned nil; another, whose callback failed
\* at the insert after its balance update, has returned that very error
C12_Witness ==
    \E p, q \in Procs :
        /\ Committed(p) /\ result[p] = Nil
        /\ pc[q] = "done"
        /\ result[q] = Wrapf("failed to bulk insert transfers", ErrIO)

\* C12 as claimed: after a callback that returned an error e, Atomic
\* returns exactly e
C12_AsStated ==
    [][\A p \in Procs :
        AtomicReturns(p) =>
            IF cbErr[p] = Nil
            THEN AfterNil(p)
            ELSE /\ UNCHANGED <<committed, commitLog>>
                 /\ ~tx'[p].open
                 /\ result'[p] = cbErr[p]]_vars

(***************************************************************************)
(* C13  Outside an Atomic scope.  GetAccountByID, UpdateBalance or         *)
(* AddTransfers called on a store whose tx is nil returns, with a non-nil  *)
(* error that is neither AccountNotFound nor InsufficientFunds (and the    *)
(* zero Account), and the call leaves the committed database, every open   *)
(* transaction and the write lock as they were.  Inside the service, an    *)
(* operation reached after the call's transaction was closed likewise ends *)
(* the callback with such an error and reads and writes nothing.           *)
(***************************************************************************)
DomainError(err) ==
    IsErr(err, ErrAccountNotFound) \/ IsErr(err, ErrInsufficientFunds)

\* p runs a repository operation in this step, its transaction closed
OperationOnClosedTx(p) ==
    /\ pc[p] \in {"get", "update", "add"}
    /\ ~tx[p].open
    /\ pc'[p] # pc[p]

C13_OutsideAtomic ==
    [][/\ outside'.op # "" =>
            /\ outside'.returned
            /\ outside'.err # Nil
            /\ ~DomainError(outside'.err)
            /\ outside'.account = ZeroAccount
            /\ UNCHANGED <<committed, tx, writer, commitLog>>
       /\ \A p \in Procs :
            OperationOnClosedTx(p) =>
                /\ pc'[p] = "end"
                /\ cbErr'[p] # Nil
                /\ ~DomainError(cbErr'[p])
                /\ account'[p] = account[p]
                /\ UNCHANGED <<committed, tx, writer, commitLog>>]_vars

\* AddTransfers has just been called outside Atomic while a call's
\* transaction was open with uncommitted writes
C13_Witness ==
    /\ outside.op = "AddTransfers"
    /\ outside.err # Nil
    /\ \E p \in Procs : tx[p].open /\ tx[p].db # committed

(***************************************************************************)
(* C14  Miss semantics.  A GetAccountByID step hands the callback an       *)
(* account only when a stored row has both the IBAN and the BIC of the     *)
(* request, and then that row's id and balance; when no row has both (a    *)
(* row with the IBAN and another BIC, or the BIC and another IBAN,         *)
(* included) the step returns the zero Account and, its query having run,  *)
(* the error AccountNotFound.                                              *)
(***************************************************************************)
\* p's GetAccountByID returns in this step
LookupReturns(p) == pc[p] = "get" /\ pc'[p] # "get"

\* the rows with the request's IBAN and BIC
Matching(p) ==
    {id \in AccountIDs :
        AccountKey(id) = <<bulkTransfer[p].OrganizationIBAN,
                           bulkTransfer[p].OrganizationBIC>>}

\* some row has the request's IBAN or its BIC, none has both
PartialMatchOnly(p) ==
    /\ Matching(p) = {}
    /\ \E id \in AccountIDs :
        \/ AccountKey(id)[1] = bulkTransfer[p].OrganizationIBAN
        \/ AccountKey(id)[2] = bulkTransfer[p].OrganizationBIC

C14_MissSemantics ==
    [][\A p \in Procs :
        LookupReturns(p) =>
            /\ pc'[p] = "debit" =>
                /\ account'[p].ID \in Matching(p)
                /\ account'[p].BalanceCents = tx[p].db.balance[account'[p].ID]
            /\ Matching(p) = {} =>
                /\ pc'[p] = "end"
                /\ account'[p] = ZeroAccount
                /\ \/ cbErr'[p] = ErrAccountNotFound
                   \/ "failed to get account" \in cbErr'[p]
            /\ cbErr'[p] = ErrAccountNotFound => Matching(p) = {}]_vars

\* a lookup with the IBAN of one row and the BIC of another has failed with
\* AccountNotFound
C14_Witness ==
    \E p \in Procs :
        /\ pc[p] = "end"
        /\ PartialMatchOnly(p)
        /\ cbErr[p] = ErrAccountNotFound
        /\ account[p] = ZeroAccount

(***************************************************************************)
(* C15  A failed lookup.  When the callback's lookup has failed with       *)
(* AccountNotFound, the callback has ended there: no account was read, no  *)
(* balance written in the transaction and no transfer stamped or inserted, *)
(* and the call's next step is Atomic's return.  That step closes the      *)
(* transaction, commits nothing and returns AccountNotFound itself when    *)
(* the rollback succeeds; when the transaction had already been rolled     *)
(* back for a cancelled context it returns an error wrapping               *)
(* AccountNotFound and the rollback error.                                 *)
(***************************************************************************)
\* p's callback has returned AccountNotFound to Atomic
LookupMissed(p) == pc[p] = "end" /\ cbErr[p] = ErrAccountNotFound

\* the callback called neither UpdateBalance nor AddTransfers
NothingWritten(p) ==
    /\ account[p] = ZeroAccount
    /\ transfers[p] = <<>>
    /\ idx[p] = 0
    /\ tx[p].open => tx[p].db = committed

\* Atomic's return after the missed lookup: rolled back, nothing committed
RolledBackStep(p) ==
    /\ pc'[p] = "done"
    /\ ~tx'[p].open
    /\ UNCHANGED <<committed, commitLog>>

C15_LookupFailure ==
    /\ [](\A p \in Procs : LookupMissed(p) => NothingWritten(p))
    /\ [][\A p \in Procs :
            (LookupMissed(p) /\ pc'[p] # pc[p]) =>
                /\ RolledBackStep(p)
                /\ IsErr(result'[p], ErrAccountNotFound)
                /\ tx[p].open => result'[p] = ErrAccountNotFound]_vars

\* a call on a key no row has, its context never cancelled, has returned
\* AccountNotFound itself
C15_Witness ==
    \E p \in Procs :
        /\ pc[p] = "done"
        /\ TargetOf(p) = 0
        /\ ~ctxDone[p]
        /\ result[p] = ErrAccountNotFound
        /\ committed = InitDB

\* C15 as claimed: the lookup error is returned to the caller unchanged
C15_AsStated ==
    /\ [](\A p \in Procs : LookupMissed(p) => NothingWritten(p))
    /\ [][\A p \in Procs :
            (LookupMissed(p) /\ pc'[p] # pc[p]) =>
                /\ RolledBackStep(p)
                /\ result'[p] = ErrAccountNotFound]_vars

(***************************************************************************)
(* C16  Insufficient funds.  When the balance the callback read is smaller *)
(* than the bulk transfer's TotalAmount, Debit fails: the callback ends    *)
(* with InsufficientFunds having written no balance and stamped or         *)
(* inserted no transfer, Atomic's return closes the transaction and        *)
(* commits nothing, and the error the caller receives is InsufficientFunds *)
(* (alone when the rollback succeeds, wrapped with the rollback error      *)
(* otherwise).                                                             *)
(***************************************************************************)
\* the account p's callback read is short of the total it must debit
Short(p) == account[p].BalanceCents < TotalAmount(bulkTransfer[p])

\* p's callback has returned InsufficientFunds to Atomic
DebitRefused(p) == pc[p] = "end" /\ cbErr[p] = ErrInsufficientFunds

C16_InsufficientFunds ==
    /\ [](\A p \in Procs :
            DebitRefused(p) =>
                /\ Short(p)
                /\ account[p].BalanceCents = readBalance[p]
                /\ transfers[p] = <<>>
                /\ tx[p].open => tx[p].db = committed)
    /\ [][\A p \in Procs :
            /\ (pc[p] = "debit" /\ Short(p) /\ pc'[p] # pc[p])
                    => DebitRefused(p)'
            /\ (DebitRefused(p) /\ pc'[p] # pc[p]) =>
                /\ RolledBackStep(p)
                /\ IsErr(result'[p], ErrInsufficientFunds)
                /\ tx[p].open => result'[p] = ErrInsufficientFunds]_vars

\* a call asking more than the balance an earlier commit left has returned
\* InsufficientFunds, and only the earlier call's debit is committed
C16_Witness ==
    \E p, q \in Procs :
        /\ pc[p] = "done"
        /\ result[p] = ErrInsufficientFunds
        /\ Committed(q) /\ TargetOf(q) = TargetOf(p)
        /\ TotalAmount(bulkTransfer[p]) <= InitialBalance(TargetOf(p))
        /\ committed = FullEffect(InitDB, q)

(***************************************************************************)
(* C17  Debit.  Debit(amount) on an account with balance b returns         *)
(* InsufficientFunds and leaves the balance b when b < amount; when        *)
(* b >= amount, equality included, it returns nil and the balance becomes  *)
(* b - amount as int64 computes it: the exact difference for every         *)
(* non-negative amount, the difference wrapped around for a negative       *)
(* amount that takes it past the largest int64.                            *)
(***************************************************************************)
Debited == unit.op = "Debit"

C17_Debit ==
    Debited =>
        LET b == unit.acc.BalanceCents
            amount == unit.amount
        IN  /\ b < amount =>
                /\ unit.err = ErrInsufficientFunds
                /\ unit.accAfter = unit.acc
            /\ b >= amount =>
                /\ unit.err = Nil
                /\ unit.accAfter.ID = unit.acc.ID
                /\ unit.accAfter.BalanceCents = Wrap(b - amount)
                /\ amount >= 0 => unit.accAfter.BalanceCents = b - amount

\* a debit of exactly the balance has left zero
C17_Witness ==
    /\ Debited
    /\ unit.amount = unit.acc.BalanceCents
    /\ unit.amount > 0
    /\ unit.err = Nil
    /\ unit.accAfter.BalanceCents = 0

\* C17 as claimed: whenever b >= amount the balance becomes b - amount
C17_AsStated ==
    Debited =>
        LET b == unit.acc.BalanceCents
            amount == unit.amount
        IN  /\ b < amount =>
                /\ unit.err = ErrInsufficientFunds
                /\ unit.accAfter = unit.acc
            /\ b >= amount =>
                /\ unit.err = Nil
                /\ unit.accAfter.BalanceCents = b - amount

(***************************************************************************)
(* C18  HasSufficientFunds.  HasSufficientFunds(required) is true exactly  *)
(* when the balance is at least required (true on equality, false when     *)
(* one unit short), for every balance and every required amount, and the   *)
(* account after the call is the account before it.                        *)
(***************************************************************************)
C18_HasSufficientFunds ==
    unit.op = "HasSufficientFunds" =>
        /\ unit.ok <=> unit.acc.BalanceCents >= unit.amount
        /\ unit.amount = unit.acc.BalanceCents => unit.ok
        /\ unit.amount = unit.acc.BalanceCents + 1 => ~unit.ok
        /\ unit.accAfter = unit.acc

\* zero balance, zero required: true
C18_Witness ==
    /\ unit.op = "HasSufficientFunds"
    /\ unit.acc.BalanceCents = 0
    /\ unit.amount = 0
    /\ unit.ok

(***************************************************************************)
(* C19  TotalAmount, as claimed: TotalAmount() is the arithmetic sum of    *)
(* the amounts of the list, 0 for the empty list, and the same for every   *)
(* permutation of the list.                                                *)
(***************************************************************************)
\* the lists with the elements of ts in another order
Reorderings(ts) ==
    {[i \in 1..Len(ts) |-> ts[f[i]]] : f \in Permutations(1..Len(ts))}

\* TotalAmount does not depend on the order of the list
OrderFree(ts) ==
    \A r \in Reorderings(ts) :
        TotalAmount([Transfers |-> r]) = TotalAmount([Transfers |-> ts])

C19_TotalAmount ==
    unit.op = "TotalAmount" =>
        /\ unit.total = TrueSum(unit.ts)
        /\ unit.ts = <<>> => unit.total = 0
        /\ OrderFree(unit.ts)

(***************************************************************************)
(* C20  Sign inversion exactly once.  The list the orchestrator hands to   *)
(* AddTransfers carries the amounts of the bulk transfer as they were      *)
(* given; the rows an open transaction has inserted, and the rows of every *)
(* committed call, carry the negation of those amounts, transfer by        *)
(* transfer: a positive magnitude m is stored as -m, which is negative.    *)
(***************************************************************************)
\* the amounts of a transfer list, in order
Amounts(ts) == [i \in 1..Len(ts) |-> ts[i].AmountCents]

\* the stored amounts of rows, in order
StoredAmounts(rows) == [i \in 1..Len(rows) |-> rows[i].amount_cents]

\* the negated magnitudes of p's bulk transfer, in input order
Negated(p) ==
    [i \in 1..Len(bulkTransfer[p].Transfers) |->
        0 - bulkTransfer[p].Transfers[i].AmountCents]

\* the negated magnitudes of the calls of log, one call after the other
RECURSIVE NegatedAll(_)
NegatedAll(log) ==
    IF log = <<>> THEN <<>> ELSE Negated(Head(log)) \o NegatedAll(Tail(log))

\* the rows p's open transaction has inserted
Inserted(p) ==
    SubSeq(tx[p].db.rows, Len(committed.rows) + 1, Len(tx[p].db.rows))

C20_SignInversionOnce ==
    /\ \A p \in Procs :
        pc[p] = "add" =>
            Amounts(transfers[p]) = Amounts(bulkTransfer[p].Transfers)
    /\ \A p \in Procs :
        (tx[p].open /\ Inserted(p) # <<>>) =>
            StoredAmounts(Inserted(p)) = Negated(p)
    /\ StoredAmounts(committed.rows) = NegatedAll(commitLog)
    /\ \A i \in DOMAIN committed.rows : committed.rows[i].amount_cents < 0

\* a call with two transfers of magnitude 1 has committed two rows of -1
C20_Witness ==
    \E p \in Procs :
        /\ Committed(p)
        /\ Amounts(bulkTransfer[p].Transfers) = <<1, 1>>
        /\ StoredAmounts(RowsOf(committed, TargetOf(p))) = <<0 - 1, 0 - 1>>

(***************************************************************************)
(* C21  Order preservation across batches.  For a list of n transfers      *)
(* given to AddTransfers (n below, equal to and above the batch size), the *)
(* rows inserted so far in the open transaction are, in ascending storage  *)
(* identifier, the rows of the first transfers of the list in input order; *)
(* when AddTransfers has returned nil they are the rows of all n; no       *)
(* AddTransfers step changes the committed database (all batches go to the *)
(* one transaction); and the commit appends exactly these n rows, the i-th *)
(* row being that of the i-th input transfer.                              *)
(***************************************************************************)
\* the row the i-th transfer of ts is to be persisted as
PersistedAs(ts, i) ==
    [bank_account_id |-> ts[i].BankAccountID,
     amount_cents |-> Wrap(0 - ts[i].AmountCents),
     description |-> ts[i].Description]

\* the rows of the first k transfers of ts, in input order
Persisted(ts, k) == [i \in 1..k |-> PersistedAs(ts, i)]

C21_OrderPreserved ==
    /\ [](\A p \in Procs :
            (pc[p] \in {"add", "end"} /\ tx[p].open /\ transfers[p] # <<>>) =>
                /\ Inserted(p) =
                      Persisted(transfers[p], Min(idx[p], Len(transfers[p])))
                /\ (pc[p] = "end" /\ cbErr[p] = Nil) =>
                      Len(Inserted(p)) = Len(transfers[p]))
    /\ [][\A p \in Procs :
            /\ (pc[p] = "add" /\ tx[p].open) => committed' = committed
            /\ (ReturnsNil(p) /\ transfers[p] # <<>>) =>
                  committed'.rows =
                      committed.rows \o Persisted(transfers[p], Len(transfers[p]))]_vars

\* a list of more than two batches, committed: the first row of the third
\* batch is stored at position 2 * batchSize + 1
C21_Witness ==
    /\ pc[1] = "done"
    /\ result[1] = Nil
    /\ Len(committed.rows) > 2 * batchSize
    /\ committed.rows[2 * batchSize + 1].description = 2 * batchSize + 1
    /\ committed.rows[batchSize].description = batchSize

(***************************************************************************)
(* C22  AddTransfers given a list in which at least one transfer has       *)
(* BankAccountID 0 returns a non-nil error, wherever in the list (first,   *)
(* last, in the first batch or in a later one) that transfer stands.       *)
(***************************************************************************)
\* some transfer of ts has no owner
HasMissingAccountID(ts) == \E i \in 1..Len(ts) : ts[i].BankAccountID = 0

C22_MissingAccountID ==
    \A p \in Procs :
        (pc[p] = "end" /\ HasMissingAccountID(transfers[p])) => cbErr[p] # Nil

\* the first transfer of the second batch has no owner: the first batch was
\* inserted, then AddTransfers failed on the second
C22_Witness ==
    /\ pc[1] = "end"
    /\ Len(transfers[1]) > batchSize
    /\ transfers[1][batchSize + 1].BankAccountID = 0
    /\ ~HasMissingAccountID(SubSeq(transfers[1], 1, batchSize))
    /\ "transfer missing bank_account_id" \in cbErr[1]
    /\ Len(Inserted(1)) = batchSize

(***************************************************************************)
(* C23  UpdateBalance for an account whose id matches no stored row        *)
(* returns a non-nil error that is no domain error and changes no balance, *)
(* in the transaction or committed; for an account whose id matches a row, *)
(* an UpdateBalance that returns nil has set that row's balance to the     *)
(* given value and no other balance.                                       *)
(***************************************************************************)
\* p's UpdateBalance returns in this step
UpdateReturns(p) == pc[p] = "update" /\ pc'[p] # "update"

C23_UpdateBalance ==
    [][\A p \in Procs :
        UpdateReturns(p) =>
            IF account[p].ID \notin DOMAIN committed.balance
            THEN /\ pc'[p] = "end"
                 /\ cbErr'[p] # Nil
                 /\ ~DomainError(cbErr'[p])
                 /\ tx'[p].db.balance = tx[p].db.balance
                 /\ committed' = committed
            ELSE pc'[p] = "add" =>
                    /\ tx'[p].db.balance[account[p].ID] = account[p].BalanceCents
                    /\ \A id \in AccountIDs \ {account[p].ID} :
                          tx'[p].db.balance[id] = tx[p].db.balance[id]]_vars

\* UpdateBalance was handed an id no row has and returned its error
C23_Witness ==
    /\ pc[1] = "end"
    /\ account[1].ID = 3
    /\ cbErr[1] = {"no rows updated for account ID"}
    /\ tx[1].open
    /\ tx[1].db.balance = committed.balance

(***************************************************************************)
(* C24  Rollback failure reporting.  When the callback returned an error e *)
(* and the rollback then fails with an error r, Atomic returns one error   *)
(* in whose chain both e and r are found; in particular a domain error     *)
(* returned by the callback is still found in what Atomic returns.         *)
(***************************************************************************)
\* Atomic returns in this step, after a callback error and a failed rollback
RollbackFails(p) ==
    /\ pc[p] = "end"
    /\ pc'[p] = "done"
    /\ CallbackFailed(cbErr[p])
    /\ RollbackErr(p) # Nil

C24_RollbackFailureReporting ==
    [][\A p \in Procs :
        RollbackFails(p) =>
            /\ result'[p] # Nil
            /\ IsErr(result'[p], cbErr[p])
            /\ IsErr(result'[p], RollbackErr(p))
            /\ \A target \in {ErrAccountNotFound, ErrInsufficientFunds} :
                  IsErr(cbErr[p], target) => IsErr(result'[p], target)]_vars

\* the debit was refused, the context was cancelled and the transaction
\* rolled back for it, then Atomic's own rollback failed
C24_Witness ==
    \E p \in Procs :
        /\ pc[p] = "done"
        /\ "rollback error" \in result[p]
        /\ IsErr(result[p], ErrInsufficientFunds)
        /\ IsErr(result[p], ErrTxDone)

(***************************************************************************)
(* C25  Cancellation.  Once the caller's context is done while its call is *)
(* inside Atomic with the transaction begun (in the callback, or after it  *)
(* and before the commit), the call never commits: no step of it changes   *)
(* the committed database, and when Atomic returns it returns a non-nil    *)
(* error; and a transaction open when its context is done is eventually    *)
(* rolled back and its write lock released.                                *)
(***************************************************************************)
\* p's context is done after Atomic began p's transaction, before it returned
CancelledInTx(p) ==
    ctxDone[p] /\ pc[p] \in {"get", "debit", "update", "add", "end"}

C25_Cancellation ==
    /\ [][\A p \in Procs :
            CancelledInTx(p) =>
                /\ p \notin Range(commitLog')
                /\ pc'[p] # pc[p] => committed' = committed
                /\ pc'[p] = "done" => result'[p] # Nil]_vars
    /\ \A p \in Procs :
            (ctxDone[p] /\ tx[p].open) ~> (~tx[p].open /\ writer # p)

\* the context was cancelled after the callback had written and returned nil:
\* the commit was refused, the transaction rolled back, the lock released
C25_Witness ==
    \E p \in Procs :
        /\ pc[p] = "done"
        /\ ctxDone[p]
        /\ "failed to commit transaction" \in result[p]
        /\ IsErr(result[p], CtxErr)
        /\ ~tx[p].open
        /\ writer = 0
        /\ committed = InitDB

(***************************************************************************)
(* C26  No retries.  A call moves forward only: from its arrival to the    *)
(* begin of Atomic's transaction, to the callback's lookup, debit, update  *)
(* and insert, to the end of the callback, to its return; it never goes    *)
(* back, so Atomic is entered, a transaction begun and the callback        *)
(* started at most once per call.  A transaction is opened only by the     *)
(* begin step, and a call that returned, with an error or without, takes   *)
(* no further step and keeps its result.                                   *)
(***************************************************************************)
\* how far a call has come
Stage(at) ==
    CASE at = "idle" -> 0
      [] at = "begin" -> 1
      [] at = "get" -> 2
      [] at = "debit" -> 3
      [] at = "update" -> 4
      [] at = "add" -> 5
      [] at = "end" -> 6
      [] at = "done" -> 7

C26_NoRetries ==
    [][\A p \in Procs :
        /\ pc'[p] # pc[p] => Stage(pc'[p]) > Stage(pc[p])
        /\ (tx'[p].open /\ ~tx[p].open) => (pc[p] = "begin" /\ pc'[p] = "get")
        /\ pc[p] = "done" =>
              /\ pc'[p] = "done"
              /\ result'[p] = result[p]
              /\ ~tx'[p].open \/ tx'[p] = tx[p]]_vars

\* one call failed at the commit, the other in the callback; both returned
\* their error and nothing was committed
C26_Witness ==
    \E p, q \in Procs :
        /\ pc[p] = "done"
        /\ pc[q] = "done"
        /\ "failed to commit transaction" \in result[p]
        /\ IsErr(result[q], ErrInsufficientFunds)
        /\ commitLog = <<>>

(***************************************************************************)
(* C27  Lock-wait timeout.  While another call's transaction holds the     *)
(* write lock, a call at the begin of its transaction does not enter its   *)
(* callback; when its wait runs out it returns, from the begin, an error   *)
(* that wraps the store's lock error and neither AccountNotFound nor       *)
(* InsufficientFunds, its callback was not invoked, it holds no            *)
(* transaction, and the committed database, the other transactions and    *)
(* the lock are as they were.                                              *)
(***************************************************************************)
\* another call's transaction holds the write lock
LockedOut(p) == \E q \in Procs \ {p} : tx[q].open

\* p's BeginTx gives up waiting for the lock in this step
LockWaitTimesOut(p) ==
    /\ pc[p] = "begin"
    /\ pc'[p] = "done"
    /\ ~ctxDone[p]

C27_LockWaitTimeout ==
    [][\A p \in Procs :
        /\ (pc[p] = "begin" /\ LockedOut(p)) => pc'[p] \in {"begin", "done"}
        /\ LockWaitTimesOut(p) =>
              /\ LockedOut(p)
              /\ "failed to begin transaction" \in result'[p]
              /\ IsErr(result'[p], ErrBusy)
              /\ ~DomainError(result'[p])
              /\ ~tx'[p].open
              /\ UNCHANGED <<committed, commitLog, tx, writer>>]_vars

\* p gave up at the begin while q was inside its callback; q then committed
C27_Witness ==
    \E p, q \in Procs :
        /\ pc[p] = "done"
        /\ IsErr(result[p], ErrBusy)
        /\ pc[q] = "done"
        /\ result[q] = Nil
        /\ commitLog = <<q>>
        /\ bulkTransfer[q].Transfers # <<>>

(***************************************************************************)
(* C28  Concrete scenario.  On an account with balance 1,000,000, a call   *)
(* with three transfers of 10050, 25075 and 7525 cents that returns nil    *)
(* leaves the balance at 957350 and exactly three rows, of amounts -10050, *)
(* -25075 and -7525, in input order, on that account; the call returns an  *)
(* error only when the store failed or the context was cancelled, and then *)
(* the store is as seeded.                                                 *)
(***************************************************************************)
C28_HappyPath ==
    /\ (pc[1] = "done" /\ result[1] = Nil) =>
          /\ committed.balance[1] = 957350
          /\ committed.balance[2] = InitialBalance(2)
          /\ committed.rows =
                <<[bank_account_id |-> 1, amount_cents |-> 0 - 10050, description |-> 1],
                  [bank_account_id |-> 1, amount_cents |-> 0 - 25075, description |-> 2],
                  [bank_account_id |-> 1, amount_cents |-> 0 - 7525, description |-> 3]>>
    /\ (pc[1] = "done" /\ result[1] # Nil) =>
          /\ Faulted(1)
          /\ committed = HappyPathDB

\* the call returned nil and the client then read the balance and the count
C28_Witness ==
    /\ pc[1] = "done"
    /\ result[1] = Nil
    /\ observed.id = 1
    /\ observed.balance = 957350
    /\ observed.count = 3

(***************************************************************************)
(* C29  Boundary error mapping.  A request that does not decode, lacks a   *)
(* required field, has no transfer, a currency other than EUR or an amount *)
(* that is no non-negative number is answered 400 and ProcessBulkTransfer  *)
(* is not called for it; every other request is handed to                  *)
(* ProcessBulkTransfer and answered 201 when that returns nil, 404 when    *)
(* the error is or wraps AccountNotFound, 422 when it is or wraps          *)
(* InsufficientFunds, 500 for any other error.                             *)
(***************************************************************************)
\* the request fails decoding, validation or the conversion of an amount
BadRequest(body) ==
    \/ ~body.Decodes
    \/ body.OrganizationBIC = ""
    \/ body.OrganizationIBAN = ""
    \/ body.CreditTransfers = <<>>
    \/ \E i \in 1..Len(body.CreditTransfers) :
          \/ body.CreditTransfers[i].Currency # "EUR"
          \/ ~body.CreditTransfers[i].Rest
          \/ body.CreditTransfers[i].Amount \notin {"0", "1"}

C29_BoundaryErrorMapping ==
    /\ handler.stage # "" => (handler.invoked <=> ~BadRequest(handler.body))
    /\ (handler.stage # "" /\ ~handler.invoked) =>
          /\ handler.stage = "answered"
          /\ handler.status = 400
          /\ pc[1] = "idle"
          /\ bulkTransfer[1] = NoBulkTransfer
          /\ committed = HappyPathDB
    /\ (handler.stage = "answered" /\ handler.invoked) =>
          /\ pc[1] = "done"
          /\ result[1] = Nil => handler.status = 201
          /\ IsErr(result[1], ErrAccountNotFound) => handler.status = 404
          /\ IsErr(result[1], ErrInsufficientFunds) => handler.status = 422
          /\ (result[1] # Nil /\ ~DomainError(result[1])) => handler.status = 500

\* the lookup missed, the rollback failed after a cancellation, and the
\* error that wraps AccountNotFound was answered 404
C29_Witness ==
    /\ handler.stage = "answered"
    /\ handler.status = 404
    /\ IsErr(result[1], ErrAccountNotFound)
    /\ result[1] # ErrAccountNotFound

(***************************************************************************)
(* C30  Orchestrator protocol.  A call's steps follow one order: begin of  *)
(* the transaction, GetAccountByID, Debit, UpdateBalance, AddTransfers,    *)
(* end of the callback, return; a step may only be skipped by returning.   *)
(* The callback ends with nil only out of AddTransfers.  When a call with  *)
(* a non-empty list returns nil, its transaction holds the balance its     *)
(* GetAccountByID read less the total, which is the debited account handed *)
(* to UpdateBalance, and the rows of its whole list, stamped with that     *)
(* account.  The balance in an open transaction changes only in the        *)
(* UpdateBalance step, to the debited account's balance, so it is written  *)
(* once per transaction, before the commit.                                *)
(***************************************************************************)
\* the moves of a call from one position to the next
ProtocolOrder ==
    {<<"idle", "begin">>, <<"idle", "done">>,
     <<"begin", "get">>, <<"begin", "done">>,
     <<"get", "debit">>, <<"get", "end">>,
     <<"debit", "update">>, <<"debit", "end">>,
     <<"update", "add">>, <<"update", "end">>,
     <<"add", "end">>,
     <<"end", "done">>}

\* p's transaction is open before and after the step and its balances differ
BalanceWritten(p) ==
    /\ tx[p].open
    /\ tx'[p].open
    /\ tx'[p].db.balance # tx[p].db.balance

C30_OrchestratorProtocol ==
    [][\A p \in Procs :
        /\ pc'[p] # pc[p] => <<pc[p], pc'[p]>> \in ProtocolOrder
        /\ (pc[p] # "end" /\ pc'[p] = "end" /\ cbErr'[p] = Nil) => pc[p] = "add"
        /\ ReturnsNil(p) =>
              /\ cbErr[p] = Nil
              /\ tx[p].open
              /\ account[p].ID = TargetOf(p)
              /\ readBalance[p] = committed.balance[account[p].ID]
              /\ account[p].BalanceCents =
                    Wrap(readBalance[p] - TotalAmount(bulkTransfer[p]))
              /\ tx[p].db.balance =
                    [committed.balance EXCEPT ![account[p].ID] = account[p].BalanceCents]
              /\ Len(transfers[p]) = Len(bulkTransfer[p].Transfers)
              /\ Inserted(p) = Persisted(transfers[p], Len(transfers[p]))
              /\ \A i \in 1..Len(transfers[p]) :
                    transfers[p][i].BankAccountID = account[p].ID
        /\ BalanceWritten(p) =>
              /\ pc[p] = "update"
              /\ pc'[p] = "add"
              /\ tx'[p].db.balance =
                    [tx[p].db.balance EXCEPT ![account[p].ID] = account[p].BalanceCents]
              /\ tx[p].db.balance = committed.balance
              /\ committed' = committed]_vars

\* a call with more than one transfer went through the whole protocol and
\* its balance and rows are committed
C30_Witness ==
    \E p \in Procs :
        /\ pc[p] = "done"
        /\ result[p] = Nil
        /\ Len(bulkTransfer[p].Transfers) > 1
        /\ Committed(p)
        /\ committed.balance[TargetOf(p)] # InitialBalance(TargetOf(p))
        /\ Len(RowsOf(committed, TargetOf(p))) >= Len(bulkTransfer[p].Transfers)

(***************************************************************************)
(* C31  A failed UpdateBalance.  When UpdateBalance has failed, the        *)
(* callback has ended there: the failed call wrote nothing, no transfer    *)
(* was stamped or inserted, and the call's next step is Atomic's return.   *)
(* That step closes the transaction, commits nothing, writes nothing, and  *)
(* returns the UpdateBalance error itself when the rollback succeeds; when *)
(* the transaction had already been rolled back for a cancelled context it *)
(* returns an error wrapping the UpdateBalance error and the rollback      *)
(* error.                                                                  *)
(***************************************************************************)
\* p's callback has returned the error of UpdateBalance to Atomic
UpdateFailed(p) ==
    /\ pc[p] = "end"
    /\ \/ "failed to execute update" \in cbErr[p]
       \/ "no rows updated for account ID" \in cbErr[p]

\* AddTransfers was not called and the transaction holds no write
NothingAdded(p) ==
    /\ transfers[p] = <<>>
    /\ idx[p] = 0
    /\ tx[p].open => tx[p].db = committed

C31_UpdateFailure ==
    /\ [](\A p \in Procs : UpdateFailed(p) => NothingAdded(p))
    /\ [][\A p \in Procs :
            /\ (pc[p] = "update" /\ pc'[p] = "end") =>
                  /\ UpdateFailed(p)'
                  /\ UNCHANGED <<tx, committed, commitLog>>
            /\ (UpdateFailed(p) /\ pc'[p] # pc[p]) =>
                  /\ RolledBackStep(p)
                  /\ IsErr(result'[p], cbErr[p])
                  /\ tx[p].open => result'[p] = cbErr[p]]_vars

\* the UPDATE failed in the store, the context was never cancelled, and the
\* caller received the UpdateBalance error itself
C31_Witness ==
    \E p \in Procs :
        /\ pc[p] = "done"
        /\ ~ctxDone[p]
        /\ result[p] = Wrapf("failed to execute update", ErrIO)
        /\ committed = InitDB
        /\ writer # p

\* C31 as claimed: the UpdateBalance error is returned to the caller unchanged
C31_AsStated ==
    [][\A p \in Procs :
        (UpdateFailed(p) /\ pc'[p] # pc[p]) =>
            /\ RolledBackStep(p)
            /\ result'[p] = cbErr[p]]_vars

(***************************************************************************)
(* C32  Stamping.  While AddTransfers runs and after it, the list it was   *)
(* handed has the length of the call's input list; its i-th element is     *)
(* owned by the account GetAccountByID returned, which is the account of   *)
(* the request's (IBAN, BIC), and has the amount and the description of    *)
(* the i-th input transfer.                                                *)
(***************************************************************************)
\* p's callback has called AddTransfers
HandedToAddTransfers(p) ==
    \/ pc[p] = "add"
    \/ pc[p] = "end" /\ transfers[p] # <<>>

C32_Stamping ==
    \A p \in Procs :
        HandedToAddTransfers(p) =>
            /\ Len(transfers[p]) = Len(bulkTransfer[p].Transfers)
            /\ account[p].ID # 0
            /\ account[p].ID = TargetOf(p)
            /\ \A i \in 1..Len(transfers[p]) :
                  /\ transfers[p][i].BankAccountID = account[p].ID
                  /\ transfers[p][i].AmountCents =
                        bulkTransfer[p].Transfers[i].AmountCents
                  /\ transfers[p][i].Description =
                        bulkTransfer[p].Transfers[i].Description

\* a list of two different amounts was stamped for account 2 and handed over
\* in the input's order
C32_Witness ==
    \E p \in Procs :
        /\ pc[p] = "add"
        /\ Amounts(bulkTransfer[p].Transfers) = <<MaxInt64, 1>>
        /\ Amounts(transfers[p]) = <<MaxInt64, 1>>
        /\ transfers[p][1].BankAccountID = 2
        /\ transfers[p][2].BankAccountID = 2

(***************************************************************************)
(* C33  Progress.  A call waiting at the begin of its transaction can      *)
(* begin as soon as no transaction holds the write lock, and when it then  *)
(* takes its step it gets the lock and a transaction on the now-committed  *)
(* database.  Every call that has arrived eventually returns, and a write  *)
(* lock that is held is eventually released.                               *)
(***************************************************************************)
\* p's call waits to begin its transaction, its context not cancelled
Waiting(p) == pc[p] = "begin" /\ ~ctxDone[p]

C33_Progress ==
    /\ [][\A p \in Procs :
            (Waiting(p) /\ writer = 0 /\ pc'[p] # pc[p]) =>
                /\ pc'[p] = "get"
                /\ writer' = p
                /\ tx'[p] = [open |-> TRUE, db |-> committed]]_vars
    /\ \A p \in Procs : InFlight(p) ~> (pc[p] = "done")
    /\ \A p \in Procs : (writer = p) ~> (writer # p)

\* one call waited while the other held the lock, then both committed
C33_Witness ==
    \E p, q \in Procs :
        /\ p # q
        /\ commitLog = <<q, p>>
        /\ pc[p] = "done"
        /\ pc[q] = "done"
        /\ writer = 0
        /\ TargetOf(p) = TargetOf(q)

(***************************************************************************)
(* C34  Rollback on every non-success exit.  Whenever a call has returned  *)
(* an error, control has left Atomic with the transaction rolled back: the *)
(* call has no open transaction and does not hold the write lock.          *)
(***************************************************************************)
C34_RollbackOnEveryExit ==
    \A p \in Procs :
        (pc[p] = "done" /\ result[p] # Nil) => (~tx[p].open /\ writer # p)

(***************************************************************************)
(* C35  Transfers are append-only.  No step changes or deletes a committed *)
(* transfer row: the committed rows after a step are the committed rows    *)
(* before it, each with its identifier (its position), account, amount and *)
(* description, followed by the rows the step committed; and an open       *)
(* transaction sees every committed row unchanged under the rows it added. *)
(***************************************************************************)
IsPrefix(s, t) == Len(s) <= Len(t) /\ SubSeq(t, 1, Len(s)) = s

C35_AppendOnly ==
    /\ [][IsPrefix(committed.rows, committed'.rows)]_vars
    /\ [](\A p \in Procs :
            tx[p].open => IsPrefix(committed.rows, tx[p].db.rows))

\* a second call has committed its transfers after the first one's
C35_Witness ==
    /\ Len(commitLog) = 2
    /\ Len(committed.rows) >= 2

(***************************************************************************)
(* C36  Batch bound.  AddTransfers given n transfers returns nil after     *)
(* Ceil(n / batchSize) insert statements; every statement inserts between  *)
(* 1 and batchSize rows, so fewer bound parameters than SQLite accepts,    *)
(* and its rows are the slice of the input that starts where the previous  *)
(* statement's slice ended and runs for batchSize transfers or to the end  *)
(* of the input; together the slices are the whole input.  Given no        *)
(* transfer it issues no statement and returns nil.                        *)
(***************************************************************************)
Ceil(n, d) == (n + d - 1) \div d

\* the rows the step's statement inserted in p's transaction
NewRows(p) ==
    SubSeq(tx'[p].db.rows, Len(tx[p].db.rows) + 1, Len(tx'[p].db.rows))

AddTransfersReturnsNil(p) ==
    pc[p] = "add" /\ pc'[p] = "end" /\ cbErr'[p] = Nil

AddTransfersFailed(p) ==
    pc[p] = "end" /\ idx[p] < Len(transfers[p])

\* the table after the transfers ts[1..n] have been inserted in order
WithRows(ts, n) ==
    InitDB.rows \o [j \in 1..n |-> StoredRow(ts[j])]

C37_PerBatch ==
    [][\A p \in Procs :
        /\ (pc[p] = "add" /\ pc'[p] = "end" /\ cbErr'[p] # Nil) =>
            /\ AddTransfersFailed(p)'
            /\ idx'[p] = batchSize * (idx'[p] \div batchSize)
            /\ tx'[p].open => tx'[p].db.rows = WithRows(transfers[p], idx'[p])
        /\ (AddTransfersFailed(p) /\ pc'[p] = "done") =>
            IF cbErr[p] # Nil
            THEN /\ result'[p] # Nil
                 /\ committed' = committed
            ELSE \/ /\ result'[p] = Nil
                    /\ committed'.rows = WithRows(transfers[p], idx[p])
                 \/ /\ result'[p] # Nil
                    /\ committed' = committed]_vars

\* the statement of the claim: a failed AddTransfers has inserted nothing, and
\* the call that ignores its error commits nothing
C37_AllOrNothing ==
    [][\A p \in Procs :
        /\ (pc[p] = "add" /\ pc'[p] = "end" /\ cbErr'[p] # Nil) =>
            tx'[p].db.rows = InitDB.rows
        /\ (AddTransfersFailed(p) /\ pc'[p] = "done") =>
            committed'.rows = committed.rows]_vars

\* the second batch has failed after the first was inserted, and the callback
\* has ignored the error
C37_Witness ==
    /\ AddTransfersFailed(1)
    /\ cbErr[1] = Nil
    /\ idx[1] = batchSize
    /\ tx[1].open
    /\ Len(tx[1].db.rows) = Len(InitDB.rows) + batchSize

(***************************************************************************)
(* C38  Frame on other accounts.  Every step that changes the committed    *)
(* database is the commit of one call, and it leaves the balance and the   *)
(* transfer rows of every account other than the one identified by the     *)
(* call's (IBAN, BIC) as they were; a call that fails, and a call whose     *)
(* (IBAN, BIC) identifies no account, changes nothing.                     *)
(***************************************************************************)
\* account id is not the one p's request identifies
OtherAccount(p, id) ==
    AccountKey(id) #
        <<bulkTransfer[p].OrganizationIBAN, bulkTransfer[p].OrganizationBIC>>

C38_FrameOnOtherAccounts ==
    [][committed' # committed =>
        \E p \in Procs :
            /\ pc[p] = "end"
            /\ pc'[p] = "done"
            /\ result'[p] = Nil
            /\ \A id \in AccountIDs :
                OtherAccount(p, id) =>
                    /\ committed'.balance[id] = committed.balance[id]
                    /\ RowsOf(committed', id) = RowsOf(committed, id)]_vars

\* calls on both accounts have committed: each account has its own rows, and
\* the committed balance of each moved
C38_Witness ==
    /\ Len(commitLog) = 2
    /\ bulkTransfer[1].OrganizationIBAN # bulkTransfer[2].OrganizationIBAN
    /\ \A id \in AccountIDs :
        /\ RowsOf(committed, id) # <<>>
        /\ committed.balance[id] # InitialBalance(id)

(***************************************************************************)
(* C39  ProcessBulkTransfer does not modify its argument.  From the call   *)
(* on, whether it succeeds or fails, the caller's BulkTransfer keeps its   *)
(* transfers, in their order, each with the owning-account id it had (no   *)
(* id, 0); the stamped ids are in the list handed to AddTransfers only.    *)
(***************************************************************************)
C39_ArgumentUnmodified ==
    /\ [][\A p \in Procs :
            pc[p] # "idle" => bulkTransfer'[p] = bulkTransfer[p]]_vars
    /\ [](\A p \in Procs :
            \A i \in 1..Len(bulkTransfer[p].Transfers) :
                bulkTransfer[p].Transfers[i].BankAccountID = 0)

\* a call has committed rows stamped with its account, and a second call
\* has failed
C39_Witness ==
    /\ pc[1] = "done"
    /\ result[1] = Nil
    /\ Len(bulkTransfer[1].Transfers) = MaxLen
    /\ RowsOf(committed, TargetOf(1)) # <<>>
    /\ pc[2] = "done"
    /\ result[2] # Nil
    /\ Len(bulkTransfer[2].Transfers) = MaxLen

(***************************************************************************)
(* C40  TotalAmount of non-negative amounts.  For every call whose         *)
(* transfer amounts are all non-negative, TotalAmount() is non-negative    *)
(* and is the arithmetic sum of the amounts, and the commit of a call that *)
(* returns nil leaves its account a balance no higher than the balance the *)
(* call read.                                                              *)
(***************************************************************************)
NonNegativeAmounts(bt) ==
    \A i \in 1..Len(bt.Transfers) : bt.Transfers[i].AmountCents >= 0

C40_TotalAmountNoOverflow ==
    /\ [](\A p \in Procs :
            NonNegativeAmounts(bulkTransfer[p]) =>
                /\ TotalAmount(bulkTransfer[p]) >= 0
                /\ TotalAmount(bulkTransfer[p]) = TrueSum(bulkTransfer[p].Transfers))
    /\ [][\A p \in Procs :
            (pc[p] = "end" /\ pc'[p] = "done" /\ result'[p] = Nil
               /\ NonNegativeAmounts(bulkTransfer[p])) =>
                committed'.balance[TargetOf(p)] <= readBalance[p]]_vars

====
